---- MODULE Spec2Model ----
(***************************************************************************)
(* Release metadata store of repo-man (cmd/server/repository.go,           *)
(* cmd/server/service.go): the JSON-backed release database behind a       *)
(* sync.RWMutex, the path derivation, the upload coordinator and the       *)
(* reconciliation pass, run by the main goroutine and by request           *)
(* goroutines.                                                             *)
(*                                                                         *)
(* Strings are sequences of character codes.  A *ReleaseMetadata is an     *)
(* index into heap; the nested map db.releases holds such indices.         *)
(***************************************************************************)
EXTENDS Integers, Sequences, FiniteSets, TLC

\* ------------------------------------------------------------------ bounds

\* most records in the metadata file the process is started with
MaxFileRecs == 2
\* most calls one request goroutine makes
MaxCalls == 1
\* most process crashes in one behaviour
MaxCrashes == 1
\* largest archive size offered to an upload / found on disk at start
MaxSize == 2
\* most changes made to the repository tree from outside the process
MaxTouches == 1
\* most records in the metadata file when the tree drifts
MaxDriftRecs == 1
\* longest version string handed to parseVersion
MaxVersionLen == 6
\* most HTTP requests made to the user and token endpoints
MaxRequests == 3

\* ------------------------------------------------------------------ strings

VARIABLES
  pad,        \* the character fmt pads "%02s" with in this build
  calc,       \* the path or version computation a caller has just made
  users,      \* userDB.users: username -> pointer
  uheap,      \* the User structs, by pointer (index)
  umu,        \* userDB.mu: the writer, the readers, the goroutines waiting in Lock
  userfile,   \* the persisted users file
  apiKeys,    \* as.apiKeys: token -> username
  rpc,        \* where each HTTP request goroutine is
  rloc,       \* each request goroutine's request and local variables
  resp,       \* the response each request goroutine's last request got
  reqs        \* requests made so far

UserVars == <<users, uheap, umu, userfile, apiKeys, rpc, rloc, resp, reqs>>

NameA == <<97>>
V100 == <<49, 46, 48, 46, 48>>
V101 == <<49, 46, 48, 46, 49>>

Names == {NameA}
Versions == {V100, V101}
Sizes == 1..MaxSize
States == {"available", "unavailable"}

\* strconv of a non-negative int, most significant digit first
RECURSIVE DecDigits(_)
DecDigits(n) ==
  IF n < 10 THEN <<48 + n>> ELSE Append(DecDigits(n \div 10), 48 + (n % 10))

RECURSIVE PadLeft(_, _, _)
PadLeft(s, w, c) == IF Len(s) >= w THEN s ELSE PadLeft(<<c>> \o s, w, c)

\* fmt "%06d" of a non-negative int
Fmt06d(n) == PadLeft(DecDigits(n), 6, 48)

\* fmt "%02s": the string left-padded to width 2.  The 0 flag pads a string
\* with '0' when built with Go before 1.23 and is ignored for strings (the pad
\* is ' ') from Go 1.23 on; pad is the character of the build that runs.
PadChars == {48, 32}
Fmt02s(s) == PadLeft(s, 2, pad)

\* strings.Split(s, sep) for a one-character separator
RECURSIVE SplitAcc(_, _, _, _)
SplitAcc(s, sep, i, cur) ==
  IF i > Len(s) THEN <<cur>>
  ELSE IF s[i] = sep THEN <<cur>> \o SplitAcc(s, sep, i + 1, <<>>)
  ELSE SplitAcc(s, sep, i + 1, Append(cur, s[i]))

Split(s, sep) == SplitAcc(s, sep, 1, <<>>)

\* hash = hash*31 + int(char) over the runes, then hash & 0xFFFFF.  The low 20
\* bits of the wrapped 64-bit product are the low 20 bits of the exact one.
RECURSIVE HashFrom(_, _, _)
HashFrom(s, i, h) ==
  IF i > Len(s) THEN h ELSE HashFrom(s, i + 1, (h * 31 + s[i]) % 1048576)

generateSoftwareIDFromName(softwareName) == HashFrom(softwareName, 1, 0)

\* strings.ReplaceAll(strings.ToLower(filename), " ", "_")
sanitizeFilename(filename) ==
  [i \in 1..Len(filename) |->
     LET c == filename[i]
         l == IF c >= 65 /\ c <= 90 THEN c + 32 ELSE c
     IN IF l = 32 THEN 95 ELSE l]

RepositoryPath == "repository"

getSoftwareDirPath(repoPath, softwareName) ==
  <<repoPath,
    Fmt06d(generateSoftwareIDFromName(softwareName)) \o <<95>>
      \o sanitizeFilename(softwareName)>>

\* what a caller is left with when the runtime panics (index out of range)
Panic == <<"panic">>

getReleaseFilePath_Unpadded(repoPath, name, version) ==
  LET parts == Split(version, 46)
      fileName ==
        Fmt06d(generateSoftwareIDFromName(name)) \o <<95>>
          \o sanitizeFilename(name) \o <<95>>
          \o parts[1] \o <<46>> \o parts[2] \o <<46>>
          \o parts[3] \o <<46, 116, 103, 122>>
  IN IF Len(parts) < 3 THEN Panic
     ELSE Append(getSoftwareDirPath(repoPath, name), fileName)

\* strings.Split(metadata.Version, ".")[0], [1], [2]: a version with fewer than
\* three components indexes past the slice; components after the third are
\* not read
getReleaseFilePath(repoPath, name, version) ==
  LET parts == Split(version, 46)
      fileName ==
        Fmt06d(generateSoftwareIDFromName(name)) \o <<95>>
          \o sanitizeFilename(name) \o <<95>>
          \o Fmt02s(parts[1]) \o <<46>> \o Fmt02s(parts[2]) \o <<46>>
          \o Fmt02s(parts[3]) \o <<46, 116, 103, 122>>
  IN IF Len(parts) < 3 THEN Panic
     ELSE Append(getSoftwareDirPath(repoPath, name), fileName)

Paths == {getReleaseFilePath(RepositoryPath, n, v) : n \in Names, v \in Versions}

\* ------------------------------------------------------------------ records

ReleaseMetadata(n, v, size, st, cl) ==
  [SoftwareName |-> n, Version |-> v, FileSize |-> size, ReleaseState |-> st,
   Changelog |-> cl]

NoMd == ReleaseMetadata(<<>>, <<>>, 0, "", "")

PathOf(md) == getReleaseFilePath(RepositoryPath, md.SoftwareName, md.Version)

\* no file at a path
NoFile == -1

\* ------------------------------------------------------------------ state

Main == "main"
Workers == {"w1", "w2"}
Procs == {Main} \cup Workers
NoProc == "none"

VARIABLES
  phase,      \* "boot": main reconciles; "serving"; "crashed"; "failed": exited
  heap,       \* the ReleaseMetadata structs, by pointer (index)
  releases,   \* db.releases: softwareName -> version -> pointer
  mu,         \* db.mu: the writer, the readers, the goroutines waiting in Lock
  dbfile,     \* the persisted metadata file
  files,      \* the repository tree: size of the file at each path, or NoFile
  pc,         \* where each goroutine is
  loc,        \* each goroutine's local variables
  ret,        \* what each goroutine's last finished call returned
  calls,      \* calls each request goroutine has started
  crashes,    \* crashes so far
  acked,      \* keys a call that returned success has left persisted
  touches,    \* changes made to the repository tree from outside the process
  committed   \* the record values that stood when a write of this process run
              \* had completed

vars == <<phase, heap, releases, mu, dbfile, files, pc, loc, ret, calls,
          crashes, touches, acked, committed, pad, calc, UserVars>>

Nil == "nil"

NoLoc ==
  [op |-> "none", inner |-> "none", name |-> <<>>, version |-> <<>>,
   md |-> NoMd, ref |-> 0, src |-> 0, fd |-> FALSE, list |-> <<>>, i |-> 0,
   slice |-> <<>>, err |-> Nil, had |-> FALSE]

\* had: the store held the call's key when the call was made; fault: a system
\* call of the call failed for a reason outside the program
NoRet == [op |-> "none", name |-> <<>>, version |-> <<>>, md |-> NoMd,
          err |-> Nil, val |-> <<>>, had |-> FALSE, fault |-> FALSE]

\* ------------------------------------------------------------------ the file

\* json.Decoder.Decode of the file's content: the records, or an error
\* (an empty or cut-off file does not decode)
Decodes(f) == f.kind = "json"

\* make(map[...]...): a map with no entry
EmptyMap == [x \in {} |-> 0]

RECURSIVE loadInto_FirstVersion(_, _, _, _)
\* loadInto with a slip: every record is filed under the version of the first
loadInto_FirstVersion(recs, i, h, m) ==
  IF i > Len(recs) THEN [heap |-> h, releases |-> m]
  ELSE LET md == recs[i]
           n == md.SoftwareName
           inner == IF n \in DOMAIN m THEN m[n] ELSE EmptyMap
           inner2 == [v \in (DOMAIN inner) \cup {recs[1].Version} |->
                        IF v = recs[1].Version THEN i ELSE inner[v]]
           m2 == [x \in (DOMAIN m) \cup {n} |-> IF x = n THEN inner2 ELSE m[x]]
       IN loadInto_FirstVersion(recs, i + 1, Append(h, md), m2)

RECURSIVE loadInto(_, _, _, _)
\* the loop of loadReleasesMetadata over the decoded records recs[i..]:
\* each record gets its own struct and is filed under its own name and version
loadInto(recs, i, h, m) ==
  IF i > Len(recs) THEN [heap |-> h, releases |-> m]
  ELSE LET md == recs[i]
           n == md.SoftwareName
           inner == IF n \in DOMAIN m THEN m[n] ELSE EmptyMap
           inner2 == [v \in (DOMAIN inner) \cup {md.Version} |->
                        IF v = md.Version THEN i ELSE inner[v]]
           m2 == [x \in (DOMAIN m) \cup {n} |-> IF x = n THEN inner2 ELSE m[x]]
       IN loadInto(recs, i + 1, Append(h, md), m2)

\* loadReleasesMetadata: "ok" with the map, or "error"
loadReleasesMetadata(f) ==
  IF f.kind = "absent" THEN [err |-> Nil, heap |-> <<>>, releases |-> EmptyMap]
  ELSE IF ~Decodes(f) THEN [err |-> "IOFailure", heap |-> <<>>, releases |-> EmptyMap]
  ELSE LET r == loadInto(f.recs, 1, <<>>, EmptyMap)
       IN [err |-> Nil, heap |-> r.heap, releases |-> r.releases]

\* the records the process may find in the metadata file at its first start
InitRecs ==
  {ReleaseMetadata(n, v, s, st, "old") :
     n \in Names, v \in Versions, s \in Sizes, st \in States}

RECURSIVE SeqsUpTo(_, _)
SeqsUpTo(S, n) ==
  IF n = 0 THEN {<<>>}
  ELSE LET shorter == SeqsUpTo(S, n - 1)
       IN shorter \cup {Append(q, x) : q \in shorter, x \in S}

InitDbFiles ==
  {[kind |-> "absent", recs |-> <<>>]} \cup
  {[kind |-> "json", recs |-> q] : q \in SeqsUpTo(InitRecs, MaxFileRecs)}

RecPaths(recs) == {PathOf(recs[i]) : i \in 1..Len(recs)}

\* no computation made yet
NoCalc == [fn |-> "none"]

\* ------------------------------------------------------------------ users

Clients == {"c1", "c2"}

Usernames == {"admin", "bob"}
RoleLists == {{"administrator"}, {"user"}}

\* the MD5 digest of the password, in hex: equal for equal passwords
HashPassword(password) == <<"md5", password>>

CompareHashAndPassword(hashedPassword, password) ==
  hashedPassword = HashPassword(password)

User(username, hash, roles, enabled) ==
  [Username |-> username, PasswordHash |-> hash, Roles |-> roles,
   Enabled |-> enabled]

\* the user main creates when the store has no "admin"
DefaultAdmin == User("admin", HashPassword("admin"), {"administrator"}, TRUE)

\* the users the users file may hold at the start: at most one per username
InitUserSets ==
  {S \in SUBSET {User("admin", HashPassword("admin"), {"administrator"}, TRUE),
                 User("admin", HashPassword("admin"), {"user"}, TRUE),
                 User("bob", HashPassword("admin"), {"user"}, TRUE)} :
     \A u1, u2 \in S : u1.Username = u2.Username => u1 = u2}

RECURSIVE SetToSeq(_)
SetToSeq(S) ==
  IF S = {} THEN <<>>
  ELSE LET x == CHOOSE y \in S : TRUE IN <<x>> \o SetToSeq(S \ {x})

\* NewJSONUserDatabase, then main's "Initialize Admin User if not exists":
\* the users of the file, and the default admin when the file has no "admin"
InitUsers(S) ==
  LET all == IF \E u \in S : u.Username = "admin" THEN S ELSE S \cup {DefaultAdmin}
      h == SetToSeq(all)
  IN /\ uheap = h
     /\ users = [n \in {h[i].Username : i \in 1..Len(h)} |->
                   CHOOSE i \in 1..Len(h) : h[i].Username = n]
     /\ userfile = [kind |-> "json", users |-> all]

NoReq ==
  [route |-> "none", user |-> "", password |-> "", target |-> "",
   newPassword |-> "", roles |-> {}, enabled |-> FALSE, key |-> 0,
   ref |-> 0, seen |-> DefaultAdmin, snap |-> {}, entered |-> FALSE]

NoResp ==
  [status |-> 0, message |-> "", route |-> "none", user |-> "", target |-> "",
   enabled |-> FALSE, key |-> 0, entered |-> FALSE]

\* no request made yet
InitRequests ==
  /\ umu = [w |-> NoProc, r |-> {}, pending |-> {}]
  /\ apiKeys = << >>
  /\ rpc = [c \in Clients |-> "idle"]
  /\ rloc = [c \in Clients |-> NoReq]
  /\ resp = [c \in Clients |-> NoResp]
  /\ reqs = 0

\* the process after NewJSONReleaseDatabase, main about to reconcile
InitStore ==
  /\ pad \in PadChars
  /\ dbfile \in InitDbFiles
  /\ files \in [Paths -> {NoFile} \cup Sizes]
  /\ \A pth \in Paths \ RecPaths(dbfile.recs) : files[pth] = NoFile
  /\ LET l == loadReleasesMetadata(dbfile)
     IN heap = l.heap /\ releases = l.releases
  /\ phase = "boot"
  /\ mu = [w |-> NoProc, r |-> {}, pending |-> {}]
  /\ pc = [p \in Procs |-> IF p = Main THEN "la_rlock" ELSE "idle"]
  /\ loc = [p \in Procs |->
              IF p = Main THEN [NoLoc EXCEPT !.op = "reconcile"] ELSE NoLoc]
  /\ ret = [p \in Procs |-> NoRet]
  /\ calls = [p \in Workers |-> 0]
  /\ crashes = 0
  /\ acked = {}
  /\ touches = 0
  /\ committed = {}

Init == InitStore /\ calc = NoCalc /\ InitUsers({}) /\ InitRequests

\* ------------------------------------------------------------------ helpers

Has(m, n, v) == n \in DOMAIN m /\ v \in DOMAIN m[n]

\* m[n][v] = ref, the inner map made first when the name has none
MapPut(m, n, v, ref) ==
  LET inner == IF n \in DOMAIN m THEN m[n] ELSE EmptyMap
      inner2 == [x \in (DOMAIN inner) \cup {v} |-> IF x = v THEN ref ELSE inner[x]]
  IN [x \in (DOMAIN m) \cup {n} |-> IF x = n THEN inner2 ELSE m[x]]

\* db.releases[n] = make(map) when the name has no entry
MapEnsure(m, n) ==
  IF n \in DOMAIN m THEN m
  ELSE [x \in (DOMAIN m) \cup {n} |-> IF x = n THEN EmptyMap ELSE m[x]]

\* delete(m[n], v) alone
MapDelete_KeepEmpty(m, n, v) ==
  [m EXCEPT ![n] = [x \in (DOMAIN m[n]) \ {v} |-> m[n][x]]]

\* delete(m[n], v), then delete(m, n) when m[n] is left empty
MapDelete(m, n, v) ==
  LET inner2 == [x \in (DOMAIN m[n]) \ {v} |-> m[n][x]]
  IN IF DOMAIN inner2 = {}
       THEN [x \in (DOMAIN m) \ {n} |-> m[x]]
       ELSE [m EXCEPT ![n] = inner2]

\* the pointers held by the map
Refs(m) == UNION {{m[n][v] : v \in DOMAIN m[n]} : n \in DOMAIN m}

\* the sequences that list every element of S once (an iteration over a map
\* visits its entries in an order the runtime picks)
RECURSIVE Orders(_)
Orders(S) ==
  IF S = {} THEN {<<>>}
  ELSE UNION {{<<x>> \o q : q \in Orders(S \ {x})} : x \in S}

KeyOf(md) == <<md.SoftwareName, md.Version>>

\* ------------------------------------------------------------------ db.mu

\* Lock() has been called by p: it waits, and keeps new readers out
LockCall(m, p) == [m EXCEPT !.pending = @ \cup {p}]
\* Lock() returns to p: no writer and no reader is left
CanLock(m, p) == p \in m.pending /\ m.w = NoProc /\ m.r = {}
Locked(m, p) == [m EXCEPT !.w = p, !.pending = @ \ {p}]
Unlocked(m) == [m EXCEPT !.w = NoProc]
\* RLock() returns to p: no writer holds the lock or waits for it
CanRLock(m) == m.w = NoProc /\ m.pending = {}
RLocked(m, p) == [m EXCEPT !.r = @ \cup {p}]
RUnlocked(m, p) == [m EXCEPT !.r = @ \ {p}]

\* ------------------------------------------------------------------ returns

\* the keys a successful call of p leaves persisted
AckedAfter(p) ==
  LET l == loc[p] IN
  CASE l.op \in {"create", "upload", "update"} -> acked \cup {KeyOf(l.md)}
    [] l.op = "delete" -> acked \ {<<l.name, l.version>>}
    [] l.op = "reconcile" ->
         acked \cup {KeyOf(heap[l.list[i]]) : i \in 1..Len(l.list)}
    [] OTHER -> acked

\* what the call p is in hands back when it returns e (and val)
RetOf(p, e, val, fault) ==
  [op |-> loc[p].op, name |-> loc[p].name, version |-> loc[p].version,
   md |-> loc[p].md, err |-> e, val |-> val, had |-> loc[p].had,
   fault |-> fault]

\* the operations that write to the store
WriteOps == {"create", "update", "delete", "upload", "reconcile"}

\* FinishAs with a slip: main goes on to serve whatever the reconciliation
\* returned
FinishAs_ServeAnyway(p, r, l0) ==
  /\ ret' = [ret EXCEPT ![p] = r]
  /\ loc' = [l0 EXCEPT ![p] = NoLoc]
  /\ acked' = IF r.err = Nil THEN AckedAfter(p) ELSE acked
  /\ committed' = IF r.err = Nil /\ r.op \in WriteOps
                    THEN committed \cup {heap[x] : x \in Refs(releases)}
                    ELSE committed
  /\ IF p = Main
       THEN /\ pc' = [pc EXCEPT ![p] = "serve"]
            /\ phase' = "serving"
       ELSE /\ pc' = [pc EXCEPT ![p] = "idle"]
            /\ phase' = phase

\* the call p is in returns r to its caller; l0 is the goroutines' locals as
\* the returning step leaves them
FinishAs(p, r, l0) ==
  /\ ret' = [ret EXCEPT ![p] = r]
  /\ loc' = [l0 EXCEPT ![p] = NoLoc]
  /\ acked' = IF r.err = Nil THEN AckedAfter(p) ELSE acked
  /\ committed' = IF r.err = Nil /\ r.op \in WriteOps
                    THEN committed \cup {heap[x] : x \in Refs(releases)}
                    ELSE committed
  /\ IF p = Main
       THEN \* main: logger.Fatalf on an error, else it goes on to serve
            /\ pc' = [pc EXCEPT ![p] = IF r.err = Nil THEN "serve" ELSE "exit"]
            /\ phase' = IF r.err = Nil THEN "serving" ELSE "failed"
       ELSE /\ pc' = [pc EXCEPT ![p] = "idle"]
            /\ phase' = phase

FinishL(p, e, val, fault, l0) == FinishAs(p, RetOf(p, e, val, fault), l0)

FinishF(p, e, val, fault) == FinishL(p, e, val, fault, loc)

\* "IOFailure" is a system call that failed for a reason outside the program,
\* unless said otherwise
Finish(p, e, val) == FinishF(p, e, val, e = "IOFailure")

\* where the reconcile loop goes after record i
RcNext(l) == IF l.i + 1 > Len(l.list) THEN "save_rlock" ELSE "rc_stat"

\* the store operation p is in (create, update, delete) returns e: its caller
\* goes on (upload, reconcile) or the call is over
Resume(p, e) ==
  LET l == loc[p] IN
  CASE l.op = "upload" /\ e # Nil ->
         /\ pc' = [pc EXCEPT ![p] = "up_rollback"]
         /\ loc' = [loc EXCEPT ![p] = [l EXCEPT !.err = e, !.inner = "none"]]
         /\ UNCHANGED <<ret, phase, acked, committed>>
    [] l.op = "reconcile" /\ l.inner = "update" /\ e = Nil ->
         /\ pc' = [pc EXCEPT ![p] = RcNext(l)]
         /\ loc' = [loc EXCEPT ![p] = [l EXCEPT !.i = @ + 1, !.inner = "none"]]
         /\ UNCHANGED <<ret, phase, acked, committed>>
    [] OTHER -> Finish(p, e, <<>>)

\* ------------------------------------------------------------------ calls

\* a request goroutine may start a call
CanStart(p) ==
  /\ p \in Workers
  /\ phase = "serving"
  /\ pc[p] = "idle"
  /\ calls[p] < MaxCalls

\* p starts the call op at position at with the locals l
Start(p, at, l) ==
  /\ CanStart(p)
  /\ pc' = [pc EXCEPT ![p] = at]
  /\ loc' = [loc EXCEPT ![p] = [l EXCEPT !.had = Has(releases, l.name, l.version)]]
  /\ ret' = [ret EXCEPT ![p] = NoRet]
  /\ calls' = [calls EXCEPT ![p] = @ + 1]

StartGetReleaseMetadata(p) ==
  \E n \in Names, v \in Versions :
    /\ Start(p, "get_rlock", [NoLoc EXCEPT !.op = "get", !.name = n, !.version = v])
    /\ UNCHANGED <<phase, heap, releases, mu, dbfile, files, crashes, touches, pad, calc, UserVars, acked, committed>>

StartListReleasesMetadataForSoftware(p) ==
  \E n \in Names :
    /\ Start(p, "lf_rlock", [NoLoc EXCEPT !.op = "listfor", !.name = n])
    /\ UNCHANGED <<phase, heap, releases, mu, dbfile, files, crashes, touches, pad, calc, UserVars, acked, committed>>

StartListAllReleasesMetadata(p) ==
  /\ Start(p, "la_rlock", [NoLoc EXCEPT !.op = "listall"])
  /\ UNCHANGED <<phase, heap, releases, mu, dbfile, files, crashes, touches, pad, calc, UserVars, acked, committed>>

\* the record a caller hands to create or update
CallerSize == 1024
NewMd(n, v, st) == ReleaseMetadata(n, v, CallerSize, st, "new")

StartCreateReleaseMetadata(p) ==
  \E n \in Names, v \in Versions :
    /\ Start(p, "cr_lock",
             [NoLoc EXCEPT !.op = "create", !.inner = "create", !.name = n,
                           !.version = v, !.md = NewMd(n, v, "available")])
    /\ mu' = LockCall(mu, p)
    /\ UNCHANGED <<phase, heap, releases, dbfile, files, crashes, touches, pad, calc, UserVars, acked, committed>>

StartUpdateReleaseMetadata(p) ==
  \E n \in Names, v \in Versions :
    /\ Start(p, "upd_lock",
             [NoLoc EXCEPT !.op = "update", !.inner = "update", !.name = n,
                           !.version = v, !.md = NewMd(n, v, "unavailable")])
    /\ mu' = LockCall(mu, p)
    /\ UNCHANGED <<phase, heap, releases, dbfile, files, crashes, touches, pad, calc, UserVars, acked, committed>>

StartDeleteReleaseMetadata(p) ==
  \E n \in Names, v \in Versions :
    /\ Start(p, "del_lock",
             [NoLoc EXCEPT !.op = "delete", !.inner = "delete", !.name = n,
                           !.version = v])
    /\ mu' = LockCall(mu, p)
    /\ UNCHANGED <<phase, heap, releases, dbfile, files, crashes, touches, pad, calc, UserVars, acked, committed>>

StartReconcileReleases(p) ==
  /\ Start(p, "la_rlock", [NoLoc EXCEPT !.op = "reconcile"])
  /\ UNCHANGED <<phase, heap, releases, mu, dbfile, files, crashes, touches, pad, calc, UserVars, acked, committed>>

StartUploadRelease(p) ==
  \E n \in Names, v \in Versions, size \in Sizes :
    /\ Start(p, "up_open",
             [NoLoc EXCEPT !.op = "upload", !.name = n, !.version = v,
                           !.md = NewMd(n, v, "available"), !.src = size])
    /\ UNCHANGED <<phase, heap, releases, mu, dbfile, files, crashes, touches, pad, calc, UserVars, acked, committed>>

\* ------------------------------------------------------------------ reads

\* db.mu.RLock() returns
RLockAcquire(p) ==
  /\ pc[p] \in {"get_rlock", "lf_rlock", "la_rlock", "save_rlock"}
  /\ CanRLock(mu)
  /\ mu' = RLocked(mu, p)
  /\ pc' = [pc EXCEPT ![p] =
              CASE pc[p] = "get_rlock" -> "get_body"
                [] pc[p] = "lf_rlock" -> "lf_body"
                [] pc[p] = "la_rlock" -> "la_body"
                [] pc[p] = "save_rlock" -> "save_snap"]
  /\ UNCHANGED <<phase, heap, releases, dbfile, files, loc, ret, calls, crashes, touches, pad, calc, UserVars, acked, committed>>

GetReleaseMetadata_MarkUnavailable(p) ==
  /\ pc[p] = "get_body"
  /\ mu' = RUnlocked(mu, p)
  /\ LET n == loc[p].name
         v == loc[p].version
     IN IF n \notin DOMAIN releases
          THEN heap' = heap /\ Finish(p, "SoftwareNotFound", <<>>)
        ELSE IF v \notin DOMAIN releases[n]
          THEN heap' = heap /\ Finish(p, "VersionNotFound", <<>>)
        ELSE /\ heap' = [heap EXCEPT ![releases[n][v]].ReleaseState = "unavailable"]
             /\ Finish(p, Nil, <<releases[n][v]>>)
  /\ UNCHANGED <<releases, dbfile, files, calls, crashes, touches, pad, calc, UserVars>>

GetReleaseMetadata(p) ==
  /\ pc[p] = "get_body"
  /\ mu' = RUnlocked(mu, p)
  /\ LET n == loc[p].name
         v == loc[p].version
     IN IF n \notin DOMAIN releases THEN Finish(p, "SoftwareNotFound", <<>>)
        ELSE IF v \notin DOMAIN releases[n] THEN Finish(p, "VersionNotFound", <<>>)
        ELSE Finish(p, Nil, <<releases[n][v]>>)
  /\ UNCHANGED <<heap, releases, dbfile, files, calls, crashes, touches, pad, calc, UserVars>>

ListReleasesMetadataForSoftware(p) ==
  /\ pc[p] = "lf_body"
  /\ mu' = RUnlocked(mu, p)
  /\ LET n == loc[p].name
     IN IF n \notin DOMAIN releases THEN Finish(p, "SoftwareNotFound", <<>>)
        ELSE \E q \in Orders({releases[n][v] : v \in DOMAIN releases[n]}) :
               Finish(p, Nil, q)
  /\ UNCHANGED <<heap, releases, dbfile, files, calls, crashes, touches, pad, calc, UserVars>>

ListAllReleasesMetadata(p) ==
  /\ pc[p] = "la_body"
  /\ mu' = RUnlocked(mu, p)
  /\ \E q \in Orders(Refs(releases)) :
       IF loc[p].op = "reconcile"
         THEN \* ReconcileReleases goes on with the list
              /\ loc' = [loc EXCEPT ![p] = [@ EXCEPT !.list = q, !.i = 1]]
              /\ pc' = [pc EXCEPT ![p] = IF q = <<>> THEN "save_rlock" ELSE "rc_stat"]
              /\ UNCHANGED <<ret, phase, acked, committed>>
         ELSE Finish(p, Nil, q)
  /\ UNCHANGED <<heap, releases, dbfile, files, calls, crashes, touches, pad, calc, UserVars>>

\* ------------------------------------------------------------------ writes

\* db.mu.Lock() returns
LockAcquire(p) ==
  /\ pc[p] \in {"cr_lock", "upd_lock", "del_lock"}
  /\ CanLock(mu, p)
  /\ mu' = Locked(mu, p)
  /\ pc' = [pc EXCEPT ![p] =
              CASE pc[p] = "cr_lock" -> "cr_body"
                [] pc[p] = "upd_lock" -> "upd_body"
                [] pc[p] = "del_lock" -> "del_body"]
  /\ UNCHANGED <<phase, heap, releases, dbfile, files, loc, ret, calls, crashes, touches, pad, calc, UserVars, acked, committed>>

\* p goes into saveReleasesMetadata, still holding what it holds
EnterSave(p) ==
  /\ pc' = [pc EXCEPT ![p] = "save_rlock"]
  /\ UNCHANGED <<loc, ret, phase, acked, committed>>

\* CreateReleaseMetadata with a slip: no check for the version being there
CreateReleaseMetadata_Overwrite(p) ==
  /\ pc[p] = "cr_body"
  /\ LET md == loc[p].md
         n == md.SoftwareName
         v == md.Version
     IN /\ heap' = Append(heap, md)
        /\ releases' = MapPut(releases, n, v, Len(heap) + 1)
        /\ mu' = mu
        /\ EnterSave(p)
  /\ UNCHANGED <<dbfile, files, calls, crashes, touches, pad, calc, UserVars>>

CreateReleaseMetadata(p) ==
  /\ pc[p] = "cr_body"
  /\ LET md == loc[p].md
         n == md.SoftwareName
         v == md.Version
         m1 == MapEnsure(releases, n)
     IN IF v \in DOMAIN m1[n]
          THEN /\ releases' = m1
               /\ heap' = heap
               /\ mu' = Unlocked(mu)
               /\ Resume(p, "AlreadyExists")
          ELSE /\ heap' = Append(heap, md)
               /\ releases' = MapPut(m1, n, v, Len(heap) + 1)
               /\ mu' = mu
               /\ EnterSave(p)
  /\ UNCHANGED <<dbfile, files, calls, crashes, touches, pad, calc, UserVars>>

\* the record UpdateReleaseMetadata is given: the caller's, or (reconcile) the
\* stored struct itself
UpdateArg(p) == IF loc[p].ref # 0 THEN heap[loc[p].ref] ELSE loc[p].md

\* UpdateReleaseMetadata with a slip: no check for the key being there
UpdateReleaseMetadata_Upsert(p) ==
  /\ pc[p] = "upd_body"
  /\ LET md == UpdateArg(p)
         n == md.SoftwareName
         v == md.Version
     IN /\ IF loc[p].ref # 0
             THEN /\ heap' = heap
                  /\ releases' = MapPut(releases, n, v, loc[p].ref)
             ELSE /\ heap' = Append(heap, md)
                  /\ releases' = MapPut(releases, n, v, Len(heap) + 1)
        /\ mu' = mu
        /\ EnterSave(p)
  /\ UNCHANGED <<dbfile, files, calls, crashes, touches, pad, calc, UserVars>>

UpdateReleaseMetadata(p) ==
  /\ pc[p] = "upd_body"
  /\ LET md == UpdateArg(p)
         n == md.SoftwareName
         v == md.Version
     IN IF n \notin DOMAIN releases
          THEN /\ mu' = Unlocked(mu)
               /\ Resume(p, "SoftwareNotFound")
               /\ UNCHANGED <<heap, releases>>
        ELSE IF v \notin DOMAIN releases[n]
          THEN /\ mu' = Unlocked(mu)
               /\ Resume(p, "VersionNotFound")
               /\ UNCHANGED <<heap, releases>>
        ELSE /\ IF loc[p].ref # 0
                  THEN /\ heap' = heap
                       /\ releases' = MapPut(releases, n, v, loc[p].ref)
                  ELSE /\ heap' = Append(heap, md)
                       /\ releases' = MapPut(releases, n, v, Len(heap) + 1)
             /\ mu' = mu
             /\ EnterSave(p)
  /\ UNCHANGED <<dbfile, files, calls, crashes, touches, pad, calc, UserVars>>

DeleteReleaseMetadata(p) ==
  /\ pc[p] = "del_body"
  /\ LET n == loc[p].name
         v == loc[p].version
     IN IF n \notin DOMAIN releases
          THEN /\ mu' = Unlocked(mu)
               /\ Resume(p, "SoftwareNotFound")
               /\ UNCHANGED releases
        ELSE IF v \notin DOMAIN releases[n]
          THEN /\ mu' = Unlocked(mu)
               /\ Resume(p, "VersionNotFound")
               /\ UNCHANGED releases
        ELSE /\ releases' = MapDelete(releases, n, v)
             /\ mu' = mu
             /\ EnterSave(p)
  /\ UNCHANGED <<heap, dbfile, files, calls, crashes, touches, pad, calc, UserVars>>

\* ------------------------------------------------------------------ save

\* saveReleasesMetadata returns e to p: a create, update or delete then runs its
\* deferred Unlock and returns e; reconcile returns e
SaveReturn(p, e) ==
  IF loc[p].inner \in {"create", "update", "delete"}
    THEN mu' = Unlocked(mu) /\ Resume(p, e)
    ELSE mu' = mu /\ Finish(p, e, <<>>)

\* the slice of pointers, built under the read lock; RUnlock
saveSnapshot(p) ==
  /\ pc[p] = "save_snap"
  /\ \E q \in Orders(Refs(releases)) :
       loc' = [loc EXCEPT ![p] = [@ EXCEPT !.slice = q]]
  /\ mu' = RUnlocked(mu, p)
  /\ pc' = [pc EXCEPT ![p] = "save_create"]
  /\ UNCHANGED <<phase, heap, releases, dbfile, files, ret, calls, crashes, touches, pad, calc, UserVars, acked, committed>>

\* os.Create(db.filepath): the file is cut to length 0, or the call fails
saveCreateFile(p) ==
  /\ pc[p] = "save_create"
  /\ \/ /\ dbfile' = [kind |-> "truncated", recs |-> <<>>]
        /\ pc' = [pc EXCEPT ![p] = "save_encode"]
        /\ UNCHANGED <<mu, loc, ret, phase, acked, committed>>
     \/ /\ dbfile' = dbfile
        /\ SaveReturn(p, "IOFailure")
  /\ UNCHANGED <<heap, releases, files, calls, crashes, touches, pad, calc, UserVars>>

\* encoder.Encode(releasesSlice): the structs as they are now, or a failure
saveEncode(p) ==
  /\ pc[p] = "save_encode"
  /\ \/ /\ dbfile' = [kind |-> "json",
                      recs |-> [i \in 1..Len(loc[p].slice) |-> heap[loc[p].slice[i]]]]
        /\ SaveReturn(p, Nil)
     \/ /\ dbfile' = dbfile
        /\ SaveReturn(p, "IOFailure")
  /\ UNCHANGED <<heap, releases, files, calls, crashes, touches, pad, calc, UserVars>>

\* ------------------------------------------------------------------ reconcile

\* p calls db.UpdateReleaseMetadata(metadata) with the stored struct
RcCallUpdate(p, e) ==
  /\ pc' = [pc EXCEPT ![p] = "upd_lock"]
  /\ loc' = [loc EXCEPT ![p] = [@ EXCEPT !.inner = "update", !.err = e,
                                          !.ref = loc[p].list[loc[p].i]]]
  /\ mu' = LockCall(mu, p)
  /\ UNCHANGED <<ret, phase, acked, committed>>

\* ReconcileReleases returns the error e it met at the record it was at: the
\* message carries the record's software name and version
RcFail(p, e, fault) ==
  LET md == heap[loc[p].list[loc[p].i]]
  IN FinishAs(p, [RetOf(p, e, <<>>, fault) EXCEPT !.name = md.SoftwareName,
                                                   !.version = md.Version],
              loc)

\* ReconcileStat with a slip: a file that is there flips the state the record
\* has instead of setting it
ReconcileStat_Flip(p) ==
  /\ pc[p] = "rc_stat"
  /\ LET ref == loc[p].list[loc[p].i]
         path == PathOf(heap[ref])
     IN \/ /\ files[path] = NoFile
           /\ heap' = [heap EXCEPT ![ref].ReleaseState = "unavailable"]
           /\ RcCallUpdate(p, "NotExist")
        \/ /\ files[path] # NoFile
           /\ heap' = [heap EXCEPT ![ref].ReleaseState =
                         IF @ = "available" THEN "unavailable" ELSE "available"]
           /\ pc' = [pc EXCEPT ![p] = "rc_stat2"]
           /\ loc' = [loc EXCEPT ![p] = [@ EXCEPT !.err = Nil]]
           /\ UNCHANGED <<mu, ret, phase, acked, committed>>
        \/ /\ heap' = heap
           /\ mu' = mu
           /\ RcFail(p, "IOFailure", TRUE)
  /\ UNCHANGED <<releases, dbfile, files, calls, crashes, touches, pad, calc, UserVars>>

\* ReconcileStat with a slip: a record whose os.Stat fails is skipped
ReconcileStat_SkipOnError(p) ==
  /\ pc[p] = "rc_stat"
  /\ LET ref == loc[p].list[loc[p].i]
         path == PathOf(heap[ref])
     IN \/ /\ files[path] = NoFile
           /\ heap' = [heap EXCEPT ![ref].ReleaseState = "unavailable"]
           /\ RcCallUpdate(p, "NotExist")
        \/ /\ files[path] # NoFile
           /\ heap' = [heap EXCEPT ![ref].ReleaseState = "available"]
           /\ pc' = [pc EXCEPT ![p] = "rc_stat2"]
           /\ loc' = [loc EXCEPT ![p] = [@ EXCEPT !.err = Nil]]
           /\ UNCHANGED <<mu, ret, phase, acked, committed>>
        \/ /\ heap' = heap
           /\ mu' = mu
           /\ pc' = [pc EXCEPT ![p] = RcNext(loc[p])]
           /\ loc' = [loc EXCEPT ![p] = [@ EXCEPT !.err = "IOFailure", !.i = @ + 1]]
           /\ UNCHANGED <<ret, phase, acked, committed>>
  /\ UNCHANGED <<releases, dbfile, files, calls, crashes, touches, pad, calc, UserVars>>

\* the first os.Stat of the loop body and the branch taken on its answer err:
\* "does not exist", nil, or another error
ReconcileStat(p) ==
  /\ pc[p] = "rc_stat"
  /\ LET ref == loc[p].list[loc[p].i]
         path == PathOf(heap[ref])
     IN \/ /\ files[path] = NoFile
           /\ heap' = [heap EXCEPT ![ref].ReleaseState = "unavailable"]
           /\ RcCallUpdate(p, "NotExist")
        \/ /\ files[path] # NoFile
           /\ heap' = [heap EXCEPT ![ref].ReleaseState = "available"]
           /\ pc' = [pc EXCEPT ![p] = "rc_stat2"]
           /\ loc' = [loc EXCEPT ![p] = [@ EXCEPT !.err = Nil]]
           /\ UNCHANGED <<mu, ret, phase, acked, committed>>
        \/ \* any other error of os.Stat
           /\ heap' = heap
           /\ mu' = mu
           /\ RcFail(p, "IOFailure", TRUE)
  /\ UNCHANGED <<releases, dbfile, files, calls, crashes, touches, pad, calc, UserVars>>

\* the second os.Stat, for the size, and the comparison
ReconcileSize(p) ==
  /\ pc[p] = "rc_stat2"
  /\ LET ref == loc[p].list[loc[p].i]
         path == PathOf(heap[ref])
     IN \/ \* the file went away since the first os.Stat
           /\ files[path] = NoFile
           /\ heap' = heap
           /\ mu' = mu
           /\ RcFail(p, "IOFailure", FALSE)
        \/ \* os.Stat fails for another reason
           /\ files[path] # NoFile
           /\ heap' = heap
           /\ mu' = mu
           /\ RcFail(p, "IOFailure", TRUE)
        \/ /\ files[path] # NoFile
           /\ heap[ref].FileSize # files[path]
           /\ heap' = [heap EXCEPT ![ref].FileSize = files[path]]
           /\ RcCallUpdate(p, Nil)
        \/ /\ files[path] # NoFile
           /\ heap[ref].FileSize = files[path]
           /\ heap' = heap
           /\ mu' = mu
           /\ pc' = [pc EXCEPT ![p] = RcNext(loc[p])]
           /\ loc' = [loc EXCEPT ![p] = [@ EXCEPT !.i = @ + 1]]
           /\ UNCHANGED <<ret, phase, acked, committed>>
  /\ UNCHANGED <<releases, dbfile, files, calls, crashes, touches, pad, calc, UserVars>>

\* ------------------------------------------------------------------ upload

\* the path is unlinked: a descriptor open on it no longer writes to the path
Unlinked(l, path) ==
  [q \in Procs |->
     IF l[q].op = "upload" /\ PathOf(l[q].md) = path
       THEN [l[q] EXCEPT !.fd = FALSE] ELSE l[q]]

\* StoreReleaseFileOpen with a slip: its error is dropped and the record is
\* committed all the same
StoreReleaseFileOpen_IgnoreError(p) ==
  /\ pc[p] = "up_open"
  /\ \/ /\ files' = [files EXCEPT ![PathOf(loc[p].md)] = 0]
        /\ pc' = [pc EXCEPT ![p] = "up_copy"]
        /\ loc' = [loc EXCEPT ![p] = [@ EXCEPT !.fd = TRUE]]
        /\ mu' = mu
     \/ /\ files' = files
        /\ pc' = [pc EXCEPT ![p] = "cr_lock"]
        /\ loc' = [loc EXCEPT ![p] = [@ EXCEPT !.inner = "create"]]
        /\ mu' = LockCall(mu, p)
  /\ UNCHANGED <<heap, releases, dbfile, calls, crashes, touches, pad, calc, UserVars, ret, phase,
                 acked, committed>>

\* StoreReleaseFile up to os.Create(destPath): the directory is made, the source
\* opened and the destination created or cut to length 0; or one of them fails
StoreReleaseFileOpen(p) ==
  /\ pc[p] = "up_open"
  /\ \/ /\ files' = [files EXCEPT ![PathOf(loc[p].md)] = 0]
        /\ pc' = [pc EXCEPT ![p] = "up_copy"]
        /\ loc' = [loc EXCEPT ![p] = [@ EXCEPT !.fd = TRUE]]
        /\ UNCHANGED <<ret, phase, acked, committed>>
     \/ /\ files' = files
        /\ Finish(p, "IOFailure", <<>>)
  /\ UNCHANGED <<heap, releases, mu, dbfile, calls, crashes, touches, pad, calc, UserVars>>

Max(a, b) == IF a > b THEN a ELSE b

\* io.Copy(destFile, sourceFile): the bytes go to the descriptor's file
copyFile(p) ==
  /\ pc[p] = "up_copy"
  /\ LET path == PathOf(loc[p].md)
     IN \/ /\ files' = IF loc[p].fd /\ files[path] # NoFile
                         THEN [files EXCEPT ![path] = Max(@, loc[p].src)]
                         ELSE files
           /\ pc' = [pc EXCEPT ![p] = "up_stat"]
           /\ UNCHANGED <<loc, ret, phase, acked, committed>>
        \/ /\ files' = files
           /\ Finish(p, "IOFailure", <<>>)
  /\ UNCHANGED <<heap, releases, mu, dbfile, calls, crashes, touches, pad, calc, UserVars>>

\* os.Stat(destFilePath), the size and state set, CreateReleaseMetadata called
UploadStat(p) ==
  /\ pc[p] = "up_stat"
  /\ LET path == PathOf(loc[p].md)
     IN IF files[path] = NoFile
          THEN \* the file went away since it was written
               /\ mu' = mu
               /\ FinishF(p, "IOFailure", <<>>, FALSE)
          ELSE /\ loc' = [loc EXCEPT ![p] =
                            [@ EXCEPT !.md.FileSize = files[path],
                                      !.md.ReleaseState = "available",
                                      !.inner = "create"]]
               /\ pc' = [pc EXCEPT ![p] = "cr_lock"]
               /\ mu' = LockCall(mu, p)
               /\ UNCHANGED <<ret, phase, acked, committed>>
  /\ UNCHANGED <<heap, releases, dbfile, files, calls, crashes, touches, pad, calc, UserVars>>

\* UploadRollback with a slip: the placed file is left where it is
UploadRollback_KeepFile(p) ==
  /\ pc[p] = "up_rollback"
  /\ files' = files
  /\ Finish(p, loc[p].err, <<>>)
  /\ UNCHANGED <<heap, releases, mu, dbfile, calls, crashes, touches, pad, calc, UserVars>>

\* os.Remove(destFilePath), its result dropped, and the create's error returned
UploadRollback(p) ==
  /\ pc[p] = "up_rollback"
  /\ LET path == PathOf(loc[p].md)
     IN \/ /\ files' = [files EXCEPT ![path] = NoFile]
           /\ FinishL(p, loc[p].err, <<>>, loc[p].err = "IOFailure",
                      Unlinked(loc, path))
        \/ \* the remove fails
           /\ files' = files
           /\ FinishF(p, loc[p].err, <<>>, TRUE)
  /\ UNCHANGED <<heap, releases, mu, dbfile, calls, crashes, touches, pad, calc, UserVars>>

\* ------------------------------------------------------------------ process

\* the process dies: memory and goroutines are gone, the disk stays.  The
\* restarted process is followed up to the point where it serves: it is given
\* no further calls.
Crash ==
  /\ phase \in {"boot", "serving"}
  /\ crashes < MaxCrashes
  /\ crashes' = crashes + 1
  /\ phase' = "crashed"
  /\ heap' = <<>>
  /\ releases' = EmptyMap
  /\ mu' = [w |-> NoProc, r |-> {}, pending |-> {}]
  /\ pc' = [p \in Procs |-> "down"]
  /\ loc' = [p \in Procs |-> NoLoc]
  /\ ret' = [p \in Procs |-> NoRet]
  /\ calls' = [p \in Workers |-> MaxCalls]
  /\ committed' = {}
  /\ UNCHANGED <<dbfile, files, acked, touches, pad, calc, UserVars>>

\* main again: NewJSONReleaseDatabase, then the reconciliation
Restart ==
  /\ phase = "crashed"
  /\ LET l == loadReleasesMetadata(dbfile)
     IN IF l.err # Nil
          THEN /\ phase' = "failed"
               /\ pc' = [p \in Procs |-> IF p = Main THEN "exit" ELSE "down"]
               /\ UNCHANGED <<heap, releases, loc>>
          ELSE /\ phase' = "boot"
               /\ heap' = l.heap
               /\ releases' = l.releases
               /\ pc' = [p \in Procs |-> IF p = Main THEN "la_rlock" ELSE "idle"]
               /\ loc' = [p \in Procs |->
                            IF p = Main THEN [NoLoc EXCEPT !.op = "reconcile"]
                            ELSE NoLoc]
  /\ UNCHANGED <<mu, dbfile, files, ret, calls, crashes, touches, pad, calc, UserVars, acked, committed>>

ProcStep(p) ==
  \/ StartGetReleaseMetadata(p)
  \/ StartListReleasesMetadataForSoftware(p)
  \/ StartListAllReleasesMetadata(p)
  \/ StartCreateReleaseMetadata(p)
  \/ StartUpdateReleaseMetadata(p)
  \/ StartDeleteReleaseMetadata(p)
  \/ StartReconcileReleases(p)
  \/ StartUploadRelease(p)
  \/ RLockAcquire(p)
  \/ GetReleaseMetadata(p)
  \/ ListReleasesMetadataForSoftware(p)
  \/ ListAllReleasesMetadata(p)
  \/ LockAcquire(p)
  \/ CreateReleaseMetadata(p)
  \/ UpdateReleaseMetadata(p)
  \/ DeleteReleaseMetadata(p)
  \/ saveSnapshot(p)
  \/ saveCreateFile(p)
  \/ saveEncode(p)
  \/ ReconcileStat(p)
  \/ ReconcileSize(p)
  \/ StoreReleaseFileOpen(p)
  \/ copyFile(p)
  \/ UploadStat(p)
  \/ UploadRollback(p)

ProcNext == \E p \in Procs : ProcStep(p)

\* somebody else changes the repository tree while the process serves: the
\* file of a stored record is removed, put back or replaced by one of another
\* size
ExternalChange ==
  /\ phase = "serving"
  /\ touches < MaxTouches
  /\ \E path \in {PathOf(heap[r]) : r \in Refs(releases)}, s \in {NoFile} \cup Sizes :
       /\ s # files[path]
       /\ files' = [files EXCEPT ![path] = s]
       /\ loc' = Unlinked(loc, path)
  /\ touches' = touches + 1
  /\ UNCHANGED <<phase, heap, releases, mu, dbfile, pc, ret, calls, crashes,
                 acked, committed, pad, calc, UserVars>>

Next == ProcNext \/ Crash \/ Restart

Spec == Init /\ [][Next]_vars

\* the process with a repository tree that drifts under it, started with a
\* metadata file of at most MaxDriftRecs records
InitDrift == Init /\ Len(dbfile.recs) <= MaxDriftRecs

NextDrift == ProcNext \/ Crash \/ Restart \/ ExternalChange

SpecDrift == InitDrift /\ [][NextDrift]_vars

\* ------------------------------------------------------------------ versions

IsDigit(c) == c >= 48 /\ c <= 57

RECURSIVE DecValue(_, _, _)
DecValue(s, i, n) ==
  IF i > Len(s) THEN n ELSE DecValue(s, i + 1, n * 10 + (s[i] - 48))

\* strconv.Atoi: an optional '+' or '-', then one or more decimal digits.  A
\* string of at most MaxVersionLen characters is far inside the int range, so
\* the range error does not arise.
Atoi(s) ==
  LET signed == Len(s) > 0 /\ s[1] \in {43, 45}
      body == IF signed THEN SubSeq(s, 2, Len(s)) ELSE s
      n == DecValue(body, 1, 0)
  IN IF Len(body) = 0 \/ \E i \in 1..Len(body) : ~IsDigit(body[i])
       THEN [err |-> "ErrSyntax", val |-> 0]
       ELSE [err |-> Nil, val |-> IF signed /\ s[1] = 45 THEN 0 - n ELSE n]

\* strings.SplitN(s, sep, n) for a one-character separator and n > 0: at most
\* n substrings, the last one the unsplit remainder
RECURSIVE SplitNAcc(_, _, _, _, _)
SplitNAcc(s, sep, n, i, cur) ==
  IF i > Len(s) THEN <<cur>>
  ELSE IF s[i] = sep /\ n > 1
    THEN <<cur>> \o SplitNAcc(s, sep, n - 1, i + 1, <<>>)
  ELSE SplitNAcc(s, sep, n, i + 1, Append(cur, s[i]))

SplitN(s, sep, n) == SplitNAcc(s, sep, n, 1, <<>>)

Version(major, minor, patch, original) ==
  [Major |-> major, Minor |-> minor, Patch |-> patch, Original |-> original]

\* Version{}
ZeroVersion == Version(0, 0, 0, <<>>)

parseVersion(versionStr) ==
  LET parts == SplitN(versionStr, 46, 3)
  IN IF Len(parts) # 3 THEN [err |-> "ParseError", v |-> ZeroVersion]
     ELSE LET major == Atoi(parts[1])
              minor == Atoi(parts[2])
              patch == Atoi(parts[3])
          IN IF major.err # Nil \/ minor.err # Nil \/ patch.err # Nil
               THEN [err |-> "ParseError", v |-> ZeroVersion]
               ELSE [err |-> Nil,
                     v |-> Version(major.val, minor.val, patch.val, versionStr)]

GreaterThan_IgnoreMinor(v, other) ==
  IF v.Major > other.Major THEN TRUE
  ELSE IF v.Major < other.Major THEN FALSE
  ELSE v.Patch > other.Patch

GreaterThan(v, other) ==
  IF v.Major > other.Major THEN TRUE
  ELSE IF v.Major < other.Major THEN FALSE
  ELSE IF v.Minor > other.Minor THEN TRUE
  ELSE IF v.Minor < other.Minor THEN FALSE
  ELSE v.Patch > other.Patch

\* the less function both queries hand to sort.Slice: version descending,
\* the parse error dropped (a string that does not parse compares as Version{})
VersionDesc(s1, s2) == GreaterThan(parseVersion(s1).v, parseVersion(s2).v)

\* sort.Slice(list, less): the sort is not stable, so any arrangement of the
\* elements that less leaves in order can come out
SortSlice(list) ==
  {q \in Orders({list[i] : i \in 1..Len(list)}) :
     \A i, j \in 1..Len(q) : i < j => ~VersionDesc(q[j], q[i])}

\* ------------------------------------------------------------------ callers of the pure functions

\* names and versions handed to the path derivation
NameUpper == <<65>>
NameSpaced == <<97, 32, 98>>
NameDwta == <<100, 119, 116, 97>>
V0100 == <<48, 49, 46, 48, 46, 48>>
V1005 == <<49, 46, 48, 46, 48, 46, 53>>
V101112 == <<49, 48, 46, 49, 49, 46, 49, 50>>
V10 == <<49, 46, 48>>
V1210 == <<49, 46, 50, 46, 49, 48>>
V129 == <<49, 46, 50, 46, 57>>
V200 == <<50, 46, 48, 46, 48>>
V199 == <<49, 46, 57, 46, 57>>
V1100 == <<49, 46, 49, 48, 46, 48>>
VNeg100 == <<45, 49, 46, 48, 46, 48>>
VWord == <<97>>

PathNames == {NameA, NameUpper, NameSpaced, NameDwta}
PathVersions == {V100, V0100, V1005, V101112, V10, V1210}

\* '+', '-', '.', '0', '1', 'a'
VersionChars == {43, 45, 46, 48, 49, 97}
VersionStrings == UNION {[1..n -> VersionChars] : n \in 0..MaxVersionLen}

\* version strings that parse, handed to the comparison
CmpStrings == {V1210, V129, V200, V199, V100, V0100, VNeg100, V1100}
CmpVersions == {parseVersion(s).v : s \in CmpStrings}

\* the versions one software's releases may carry
ListedVersions == {V100, V0100, V101, VWord}

StoreVars == <<phase, heap, releases, mu, dbfile, files, pc, loc, ret, calls,
               crashes, touches, acked, committed, pad>>

\* the calls that callers are about to make, with their arguments
PathCalls ==
  {[fn |-> "paths", done |-> FALSE,
    nameA |-> nA, versionA |-> vA, nameB |-> nB, versionB |-> vB] :
     nA \in PathNames, vA \in PathVersions, nB \in PathNames, vB \in PathVersions}

ParseCalls ==
  {[fn |-> "parseVersion", done |-> FALSE, versionStr |-> s] : s \in VersionStrings}

CompareCalls ==
  {[fn |-> "GreaterThan", done |-> FALSE, a |-> a, b |-> b, c |-> c] :
     a \in CmpVersions, b \in CmpVersions, c \in CmpVersions}

LatestCalls ==
  {[fn |-> "latest", done |-> FALSE, versions |-> S] :
     S \in (SUBSET ListedVersions) \ {{}}}

\* the less function of ListReleasesForSoftware with every branch sorting
\* ascending unless "desc" is asked
ListLess_DefaultAscending(sortField, sortOrder, r1, r2) ==
  CASE sortField = "date" ->
         IF sortOrder = "desc" THEN r1.ReleaseDate > r2.ReleaseDate
         ELSE r2.ReleaseDate > r1.ReleaseDate
    [] OTHER ->
         IF sortOrder = "desc" THEN VersionDesc(r1.Version, r2.Version)
         ELSE VersionDesc(r2.Version, r1.Version)

\* the less function of ListReleasesForSoftware: r1 is releases[i], r2 is
\* releases[j]
ListLess(sortField, sortOrder, r1, r2) ==
  CASE sortField = "version" ->
         IF sortOrder = "desc" THEN VersionDesc(r1.Version, r2.Version)
         ELSE VersionDesc(r2.Version, r1.Version)
    [] sortField = "date" ->
         IF sortOrder = "desc" THEN r1.ReleaseDate > r2.ReleaseDate
         ELSE r2.ReleaseDate > r1.ReleaseDate
    [] OTHER -> VersionDesc(r1.Version, r2.Version)

\* ListReleasesForSoftware over the releases in the order the store gave them
\* (sort.Slice is not stable: any arrangement that less leaves in order)
ListReleasesForSoftware(releasesOf, sortField, sortOrder) ==
  {q \in Orders({releasesOf[i] : i \in 1..Len(releasesOf)}) :
     \A i, j \in 1..Len(q) : i < j => ~ListLess(sortField, sortOrder, q[j], q[i])}

\* Go's < on strings: byte by byte, a proper prefix first
RECURSIVE StrLess(_, _)
StrLess(a, b) ==
  IF b = <<>> THEN FALSE
  ELSE IF a = <<>> THEN TRUE
  ELSE IF a[1] # b[1] THEN a[1] < b[1]
  ELSE StrLess(Tail(a), Tail(b))

\* the loop of ListSoftwarePackages over allReleases[i..]: packageMap from
\* name to latest version
RECURSIVE packageMap(_, _, _)
packageMap(allReleases, i, pm) ==
  IF i > Len(allReleases) THEN pm
  ELSE LET release == allReleases[i]
           n == release.SoftwareName
       IN IF n \in DOMAIN pm
            THEN packageMap(allReleases, i + 1,
                   IF VersionDesc(release.Version, pm[n])
                     THEN [pm EXCEPT ![n] = release.Version]
                     ELSE pm)
            ELSE packageMap(allReleases, i + 1,
                   [x \in DOMAIN pm \cup {n} |->
                      IF x = n THEN release.Version ELSE pm[x]])

\* ListSoftwarePackages: the entries of packageMap, sorted by name
ListSoftwarePackages(allReleases) ==
  LET pm == packageMap(allReleases, 1, EmptyMap)
      packageList == SetToSeq({[Name |-> n, LatestVersion |-> pm[n]] : n \in DOMAIN pm})
  IN {q \in Orders({packageList[i] : i \in 1..Len(packageList)}) :
        \A i, j \in 1..Len(q) : i < j => ~StrLess(q[j].Name, q[i].Name)}

\* the days a release may be dated
Dates == 1..2

MaxListed == 3

\* the releases of one software that a caller lists, each version once
ListCalls ==
  {[fn |-> "list", done |-> FALSE, releases |-> S, sortField |-> f, sortOrder |-> o] :
     S \in {T \in SUBSET {[Version |-> v, ReleaseDate |-> d] :
                            v \in ListedVersions, d \in Dates} :
              /\ T # {} /\ Cardinality(T) <= MaxListed
              /\ \A r1, r2 \in T : r1.Version = r2.Version => r1 = r2},
     f \in {"version", "date", "name", ""}, o \in {"asc", "desc", ""}}

\* the releases of the store when a caller lists the packages
PackageCalls ==
  {[fn |-> "packages", done |-> FALSE, releases |-> S] :
     S \in {T \in SUBSET {[SoftwareName |-> n, Version |-> v] :
                            n \in {NameA, NameUpper}, v \in ListedVersions} :
              T # {} /\ Cardinality(T) <= MaxListed}}

\* ListReleasesForSoftware(name, sortField, sortOrder): the store hands the
\* releases over in the order of its map iteration
QuerySorted ==
  /\ calc.fn = "list" /\ ~calc.done
  /\ \E m \in Orders(calc.releases) :
       \E sorted \in ListReleasesForSoftware(m, calc.sortField, calc.sortOrder) :
         calc' = [fn |-> "list", done |-> TRUE, releases |-> calc.releases,
                  sortField |-> calc.sortField, sortOrder |-> calc.sortOrder,
                  sorted |-> sorted]
  /\ UNCHANGED <<StoreVars, UserVars>>

\* two calls of ListSoftwarePackages over the same releases, each with the
\* order its ListAllReleasesMetadata gave
QueryPackages ==
  /\ calc.fn = "packages" /\ ~calc.done
  /\ \E m1 \in Orders(calc.releases), m2 \in Orders(calc.releases) :
       \E l1 \in ListSoftwarePackages(m1), l2 \in ListSoftwarePackages(m2) :
         calc' = [fn |-> "packages", done |-> TRUE, releases |-> calc.releases,
                  first |-> l1, second |-> l2]
  /\ UNCHANGED <<StoreVars, UserVars>>

\* a caller asks for the file of a key, known or not; os.Open may fail on a
\* file that is there
FilePathCalls ==
  {[fn |-> "GetReleaseFilePath", done |-> FALSE, name |-> n, version |-> v,
    openFails |-> f] :
     n \in {NameA, NameUpper}, v \in Versions, f \in BOOLEAN}

\* what the service call hands back
PathResult(e, path) == [err |-> e, path |-> path]

\* GetReleaseFilePath without its look at the state
GetReleaseFilePath_AnyState(softwareName, version, openFails) ==
  IF softwareName \notin DOMAIN releases
    THEN PathResult("SoftwareNotFound", <<>>)
  ELSE IF version \notin DOMAIN releases[softwareName]
    THEN PathResult("VersionNotFound", <<>>)
  ELSE LET metadata == heap[releases[softwareName][version]]
       IN IF PathOf(metadata) = Panic
            THEN PathResult("panic", <<>>)
          ELSE IF files[PathOf(metadata)] = NoFile \/ openFails
            THEN PathResult("IOFailure", <<>>)
          ELSE PathResult(Nil, PathOf(metadata))

\* ReleaseService.GetReleaseFilePath: GetReleaseMetadata, the state of the
\* record, GetReleaseTGZReader (os.Open of the derived path), and the path
GetReleaseFilePath(softwareName, version, openFails) ==
  IF softwareName \notin DOMAIN releases
    THEN PathResult("SoftwareNotFound", <<>>)
  ELSE IF version \notin DOMAIN releases[softwareName]
    THEN PathResult("VersionNotFound", <<>>)
  ELSE LET metadata == heap[releases[softwareName][version]]
       IN IF metadata.ReleaseState # "available"
            THEN PathResult("NotAvailable", <<>>)
          ELSE IF PathOf(metadata) = Panic
            THEN PathResult("panic", <<>>)
          ELSE IF files[PathOf(metadata)] = NoFile \/ openFails
            THEN PathResult("IOFailure", <<>>)
          ELSE PathResult(Nil, PathOf(metadata))

\* a request for the file of a release, with the store as it was loaded
QueryFilePath ==
  /\ calc.fn = "GetReleaseFilePath" /\ ~calc.done
  /\ CanRLock(mu)
  /\ LET r == GetReleaseFilePath(calc.name, calc.version, calc.openFails)
     IN calc' = [fn |-> "GetReleaseFilePath", done |-> TRUE, name |-> calc.name,
                 version |-> calc.version, openFails |-> calc.openFails,
                 err |-> r.err, path |-> r.path]
  /\ UNCHANGED <<StoreVars, UserVars>>

\* two callers (StoreReleaseFile, ReconcileReleases, GetReleaseTGZReader) each
\* derive the path of their key; a panic leaves the caller without a path
ResolvePaths ==
  /\ calc.fn = "paths" /\ ~calc.done
  /\ calc' = [fn |-> "paths", done |-> TRUE,
              nameA |-> calc.nameA, versionA |-> calc.versionA,
              nameB |-> calc.nameB, versionB |-> calc.versionB,
              idA |-> generateSoftwareIDFromName(calc.nameA),
              dirA |-> getSoftwareDirPath(RepositoryPath, calc.nameA),
              pathA |-> getReleaseFilePath(RepositoryPath, calc.nameA, calc.versionA),
              pathB |-> getReleaseFilePath(RepositoryPath, calc.nameB, calc.versionB)]
  /\ UNCHANGED <<StoreVars, UserVars>>

ParseVersion ==
  /\ calc.fn = "parseVersion" /\ ~calc.done
  /\ LET r == parseVersion(calc.versionStr)
     IN calc' = [fn |-> "parseVersion", done |-> TRUE,
                 versionStr |-> calc.versionStr, err |-> r.err, v |-> r.v]
  /\ UNCHANGED <<StoreVars, UserVars>>

\* a caller compares three parsed versions with each other
CompareVersions ==
  /\ calc.fn = "GreaterThan" /\ ~calc.done
  /\ LET a == calc.a
         b == calc.b
         c == calc.c
     IN calc' = [fn |-> "GreaterThan", done |-> TRUE, a |-> a, b |-> b, c |-> c,
                 aa |-> GreaterThan(a, a), ab |-> GreaterThan(a, b),
                 ba |-> GreaterThan(b, a), bc |-> GreaterThan(b, c),
                 ac |-> GreaterThan(a, c)]
  /\ UNCHANGED <<StoreVars, UserVars>>

\* ListReleasesForSoftware(name, "version", "desc") and
\* GetLatestReleaseForSoftware(name) over the same releases of one software:
\* each gets the records in the order its own map iteration gives, sorts them
\* and the second returns releases[0]
QueryLatest ==
  /\ calc.fn = "latest" /\ ~calc.done
  /\ \E m1 \in Orders(calc.versions), m2 \in Orders(calc.versions) :
       \E sorted \in SortSlice(m1), sorted2 \in SortSlice(m2) :
         calc' = [fn |-> "latest", done |-> TRUE, versions |-> calc.versions,
                  sorted |-> sorted, latest |-> sorted2[1]]
  /\ UNCHANGED <<StoreVars, UserVars>>

InitCalc ==
  /\ InitStore
  /\ InitUsers({})
  /\ InitRequests
  /\ \/ /\ dbfile.kind = "absent"
        /\ calc \in PathCalls \cup ParseCalls \cup CompareCalls \cup LatestCalls
                    \cup ListCalls \cup PackageCalls
     \/ calc \in FilePathCalls

NextCalc ==
  \/ ResolvePaths \/ ParseVersion \/ CompareVersions \/ QueryLatest
  \/ QueryFilePath \/ QuerySorted \/ QueryPackages

SpecCalc == InitCalc /\ [][NextCalc]_vars

\* ------------------------------------------------------------------ HTTP requests

ReleaseVars == <<StoreVars, calc>>

AdminRoutes == {"createUser", "updateUser", "deleteUser", "status", "listUsers"}

\* the request goroutine c answers and is done
Respond(c, status, message) ==
  /\ resp' = [resp EXCEPT ![c] =
                [status |-> status, message |-> message,
                 route |-> rloc[c].route, user |-> rloc[c].user,
                 target |-> rloc[c].target, enabled |-> rloc[c].enabled,
                 key |-> rloc[c].key, entered |-> rloc[c].entered]]
  /\ rpc' = [rpc EXCEPT ![c] = "idle"]
  /\ rloc' = [rloc EXCEPT ![c] = NoReq]

\* a request with Basic credentials arrives at the router
Request(c, r) ==
  /\ rpc[c] = "idle"
  /\ reqs < MaxRequests
  /\ reqs' = reqs + 1
  /\ rloc' = [rloc EXCEPT ![c] = r]
  /\ resp' = [resp EXCEPT ![c] = NoResp]
  /\ rpc' = [rpc EXCEPT ![c] = IF r.route = "release" THEN "apikey" ELSE "ba_lookup"]
  /\ UNCHANGED <<users, uheap, umu, userfile, apiKeys, ReleaseVars>>

\* the clients send the password every user starts with
\* POST /admin/users
RequestCreateUser(c) ==
  /\ rpc[c] = "idle"
  /\ \E u \in Usernames, t \in Usernames, rl \in RoleLists :
       Request(c, [NoReq EXCEPT !.route = "createUser", !.user = u, !.password = "admin",
                                !.target = t, !.newPassword = "admin", !.roles = rl])

\* PUT /admin/users/{username}
RequestUpdateUser(c) ==
  /\ rpc[c] = "idle"
  /\ \E u \in Usernames, t \in Usernames :
       Request(c, [NoReq EXCEPT !.route = "updateUser", !.user = u, !.password = "admin",
                                !.target = t, !.newPassword = "pw"])

\* DELETE /admin/users/{username}
RequestDeleteUser(c) ==
  /\ rpc[c] = "idle"
  /\ \E u \in Usernames, t \in Usernames :
       Request(c, [NoReq EXCEPT !.route = "deleteUser", !.user = u, !.password = "admin",
                                !.target = t])

\* PATCH /admin/users/{username}/status
RequestEnableDisableUser(c) ==
  /\ rpc[c] = "idle"
  /\ \E u \in Usernames, t \in Usernames, e \in BOOLEAN :
       Request(c, [NoReq EXCEPT !.route = "status", !.user = u, !.password = "admin",
                                !.target = t, !.enabled = e])

\* GET /admin/users
RequestListUsers(c) ==
  /\ rpc[c] = "idle"
  /\ \E u \in Usernames :
       Request(c, [NoReq EXCEPT !.route = "listUsers", !.user = u, !.password = "admin"])

\* POST /auth/token
RequestCreateAPIToken(c) ==
  /\ rpc[c] = "idle"
  /\ \E u \in Usernames :
       Request(c, [NoReq EXCEPT !.route = "token", !.user = u, !.password = "admin"])

\* POST /releases, GET /releases/{software_name}/{version} with a Bearer key:
\* one that was issued, or one that never was (0)
RequestRelease(c) ==
  /\ rpc[c] = "idle"
  /\ \E k \in {0} \cup DOMAIN apiKeys :
       Request(c, [NoReq EXCEPT !.route = "release", !.key = k])

\* BasicAuthMiddleware calls userService.GetUserByUsername: RLock, the lookup,
\* and the deferred RUnlock
GetUserByUsername(c) ==
  /\ rpc[c] = "ba_lookup"
  /\ CanRLock(umu)
  /\ IF rloc[c].user \in DOMAIN users
       THEN /\ rloc' = [rloc EXCEPT ![c] = [@ EXCEPT !.ref = users[rloc[c].user],
                                                      !.seen = uheap[users[rloc[c].user]]]]
            /\ rpc' = [rpc EXCEPT ![c] = "ba_check"]
            /\ resp' = resp
       ELSE Respond(c, 401, "Invalid username or password")
  /\ UNCHANGED <<users, uheap, umu, userfile, apiKeys, reqs, ReleaseVars>>

\* the handler behind the middlewares is entered
EnterHandler(c) ==
  /\ rloc' = [rloc EXCEPT ![c] = [@ EXCEPT !.entered = TRUE]]
  /\ resp' = resp
  /\ IF rloc[c].route = "token"
       THEN rpc' = [rpc EXCEPT ![c] = "token"]
     ELSE IF rloc[c].route = "listUsers"
       THEN rpc' = [rpc EXCEPT ![c] = "lu_rlock"]
     ELSE rpc' = [rpc EXCEPT ![c] = "u_lock"]

\* the roles are not fetched from the store: "admin" is an administrator
getUserRolesFromContext(username) ==
  IF username = "admin" THEN {"administrator", "user"} ELSE {"user"}

\* the next middleware of the admin routes
AdminRoleMiddleware(c) ==
  IF "administrator" \in getUserRolesFromContext(rloc[c].user)
    THEN EnterHandler(c)
    ELSE Respond(c, 403, "Administrator role required")

\* BasicAuthMiddleware after the lookup: usr.Enabled and usr.PasswordHash are
\* read through the pointer without the lock, so a write made meanwhile may or
\* may not be seen
BasicAuthMiddleware(c) ==
  /\ rpc[c] = "ba_check"
  /\ \E usr \in {uheap[rloc[c].ref], rloc[c].seen} :
       IF ~usr.Enabled
         THEN Respond(c, 401, "Account disabled")
       ELSE IF ~CompareHashAndPassword(usr.PasswordHash, rloc[c].password)
         THEN Respond(c, 401, "Invalid username or password")
       ELSE IF rloc[c].route \in AdminRoutes
         THEN AdminRoleMiddleware(c)
       ELSE EnterHandler(c)
  /\ UNCHANGED <<users, uheap, umu, userfile, apiKeys, reqs, ReleaseVars>>

\* handleListUsers: ListUsers under the read lock
ListUsers(c) ==
  /\ rpc[c] = "lu_rlock"
  /\ CanRLock(umu)
  /\ Respond(c, 200, "users")
  /\ UNCHANGED <<users, uheap, umu, userfile, apiKeys, reqs, ReleaseVars>>

\* handleCreateAPIToken: GenerateAPIToken stores a fresh token for the user
GenerateAPIToken(c) ==
  /\ rpc[c] = "token"
  /\ LET token == Len(apiKeys) + 1
     IN /\ apiKeys' = Append(apiKeys, rloc[c].user)
        /\ Respond(c, 201, "api_key")
  /\ UNCHANGED <<users, uheap, umu, userfile, reqs, ReleaseVars>>

\* db.mu.Lock() returns to a store operation
UserLock(c) == rpc[c] = "u_lock" /\ umu.w = NoProc /\ umu.r = {}

\* the store operation changed the map or a struct: db.mu.Unlock(), then
\* saveUsers
ToSaveUsers(c) ==
  /\ umu' = Unlocked(Locked(umu, c))
  /\ rpc' = [rpc EXCEPT ![c] = "su_rlock"]
  /\ UNCHANGED <<rloc, resp>>

\* the store operation returns its error from under the lock: no Unlock on
\* this path
Rejected(c, message) ==
  /\ Respond(c, 400, message)
  /\ umu' = Locked(umu, c)
  /\ UNCHANGED <<users, uheap>>

CreateUser(c) ==
  /\ UserLock(c) /\ rloc[c].route = "createUser"
  /\ LET r == rloc[c]
     IN IF r.target \in DOMAIN users
          THEN Rejected(c, "user already exists")
          ELSE /\ uheap' = Append(uheap, User(r.target, HashPassword(r.newPassword),
                                              r.roles, TRUE))
               /\ users' = [n \in DOMAIN users \cup {r.target} |->
                              IF n = r.target THEN Len(uheap) + 1 ELSE users[n]]
               /\ ToSaveUsers(c)
  /\ UNCHANGED <<userfile, apiKeys, reqs, ReleaseVars>>

UpdateUserPassword(c) ==
  /\ UserLock(c) /\ rloc[c].route = "updateUser"
  /\ LET r == rloc[c]
     IN IF r.target \notin DOMAIN users
          THEN Rejected(c, "user not found")
          ELSE /\ uheap' = [uheap EXCEPT ![users[r.target]].PasswordHash =
                                            HashPassword(r.newPassword)]
               /\ users' = users
               /\ ToSaveUsers(c)
  /\ UNCHANGED <<userfile, apiKeys, reqs, ReleaseVars>>

DeleteUser(c) ==
  /\ UserLock(c) /\ rloc[c].route = "deleteUser"
  /\ LET r == rloc[c]
     IN IF r.target \notin DOMAIN users
          THEN Rejected(c, "user not found")
          ELSE /\ users' = [n \in DOMAIN users \ {r.target} |-> users[n]]
               /\ uheap' = uheap
               /\ ToSaveUsers(c)
  /\ UNCHANGED <<userfile, apiKeys, reqs, ReleaseVars>>

\* handleEnableDisableUser calls EnableDisableUser(username,
\* !statusRequest.Enabled)
EnableDisableUser(c) ==
  /\ UserLock(c) /\ rloc[c].route = "status"
  /\ LET r == rloc[c]
     IN IF r.target \notin DOMAIN users
          THEN Rejected(c, "user not found")
          ELSE /\ uheap' = [uheap EXCEPT ![users[r.target]].Enabled = ~r.enabled]
               /\ users' = users
               /\ ToSaveUsers(c)
  /\ UNCHANGED <<userfile, apiKeys, reqs, ReleaseVars>>

\* saveUsers: the pointers are collected under the read lock
saveUsersSnapshot(c) ==
  /\ rpc[c] = "su_rlock"
  /\ CanRLock(umu)
  /\ rloc' = [rloc EXCEPT ![c] = [@ EXCEPT !.snap = {users[n] : n \in DOMAIN users}]]
  /\ rpc' = [rpc EXCEPT ![c] = "su_write"]
  /\ UNCHANGED <<users, uheap, umu, userfile, apiKeys, resp, reqs, ReleaseVars>>

\* what the handler answers when its store operation returned nil
Success(route) ==
  CASE route = "createUser" -> 201
    [] route = "deleteUser" -> 204
    [] OTHER -> 200

\* saveUsers: os.Create and Encode of the structs as they are now; either may
\* fail, and a failed Encode leaves the file cut
saveUsersWrite(c) ==
  /\ rpc[c] = "su_write"
  /\ \/ /\ userfile' = [kind |-> "json",
                        users |-> {uheap[x] : x \in rloc[c].snap}]
        /\ Respond(c, Success(rloc[c].route), "ok")
     \/ /\ userfile' \in {userfile, [kind |-> "truncated", users |-> {}]}
        /\ Respond(c, 400, "failed to save")
  /\ UNCHANGED <<users, uheap, umu, apiKeys, reqs, ReleaseVars>>

validateAPIKey(apiKey) ==
  IF apiKey \in DOMAIN apiKeys
    THEN [username |-> apiKeys[apiKey], ok |-> TRUE]
    ELSE [username |-> "", ok |-> FALSE]

\* APIKeyAuthMiddleware: a key that is in as.apiKeys lets the request through
\* to the release handler
APIKeyAuthMiddleware(c) ==
  /\ rpc[c] = "apikey"
  /\ LET v == validateAPIKey(rloc[c].key)
     IN IF v.ok
          THEN /\ resp' = [resp EXCEPT ![c] =
                             [NoResp EXCEPT !.status = 200, !.message = "handled",
                                            !.route = "release", !.user = v.username,
                                            !.key = rloc[c].key, !.entered = TRUE]]
               /\ rpc' = [rpc EXCEPT ![c] = "idle"]
               /\ rloc' = [rloc EXCEPT ![c] = NoReq]
          ELSE Respond(c, 401, "Invalid API Key")
  /\ UNCHANGED <<users, uheap, umu, userfile, apiKeys, reqs, ReleaseVars>>

ClientStep(c) ==
  \/ RequestCreateUser(c)
  \/ RequestUpdateUser(c)
  \/ RequestDeleteUser(c)
  \/ RequestEnableDisableUser(c)
  \/ RequestListUsers(c)
  \/ RequestCreateAPIToken(c)
  \/ RequestRelease(c)
  \/ GetUserByUsername(c)
  \/ BasicAuthMiddleware(c)
  \/ ListUsers(c)
  \/ GenerateAPIToken(c)
  \/ CreateUser(c)
  \/ UpdateUserPassword(c)
  \/ DeleteUser(c)
  \/ EnableDisableUser(c)
  \/ saveUsersSnapshot(c)
  \/ saveUsersWrite(c)
  \/ APIKeyAuthMiddleware(c)

InitAuth ==
  /\ InitStore
  /\ dbfile.kind = "absent"
  \* no request to these routes formats a path
  /\ pad = 48
  /\ calc = NoCalc
  /\ \E S \in InitUserSets : InitUsers(S)
  /\ InitRequests

NextAuth == \E c \in Clients : ClientStep(c)

SpecAuth == InitAuth /\ [][NextAuth]_vars

\* ------------------------------------------------------------------ claims

\* the call p is in, or the last one it finished
CallOf(p) ==
  IF loc[p].op # "none"
    THEN [op |-> loc[p].op, name |-> loc[p].name, version |-> loc[p].version,
          had |-> loc[p].had, returned |-> FALSE]
    ELSE [op |-> ret[p].op, name |-> ret[p].name, version |-> ret[p].version,
          had |-> ret[p].had, returned |-> TRUE]

\* no request goroutine is inside a call
Quiet == \A p \in Workers : loc[p].op = "none"

\* the stored records, as listAll hands them out
Stored == {heap[r] : r \in Refs(releases)}

\* the stored records with the key <<n, v>>
RecordsFor(n, v) == {r \in Refs(releases) : KeyOf(heap[r]) = <<n, v>>}

\* every call made since the process began to serve is an upload
OnlyUploads == \A p \in Workers : CallOf(p).op \in {"none", "upload"}

\* no system call of a finished call failed for a reason outside the program
NoFault == \A p \in Workers : ~ret[p].fault

\* C1: while the process serves and only uploads are called (none of them hit
\* by a failing system call), whenever no upload is in progress every stored
\* record with state available has a file at its derived path whose size equals
\* the record's fileSize.
C1_AvailableHasFile ==
  (phase = "serving" /\ OnlyUploads /\ Quiet /\ NoFault) =>
    \A md \in Stored :
      md.ReleaseState = "available" => files[PathOf(md)] = md.FileSize

InStoreCall(p) == loc[p].op \in {"create", "update", "delete", "upload", "reconcile"}

\* C3: no invocation of a mutating store operation blocks forever: while a
\* goroutine is inside one, some goroutine of the process can take a step.
C3_NoInvocationBlocksForever ==
  (\E p \in Procs : InStoreCall(p)) => ENABLED ProcNext

NotFound == {"SoftwareNotFound", "VersionNotFound"}

\* the two request goroutines, each with the other
Pairs == {<<p, q>> \in Workers \X Workers : p # q}

\* C4: two create calls for the same key, both made while the store does not
\* hold it, end with exactly one success and one AlreadyExists: once no
\* goroutine can take a step, both have returned, that way.
C4_ExactlyOneCreateSucceeds ==
  \A pq \in Pairs :
    LET a == CallOf(pq[1])
        b == CallOf(pq[2])
    IN (/\ a.op = "create" /\ b.op = "create"
        /\ a.name = b.name /\ a.version = b.version
        /\ ~a.had /\ ~b.had /\ NoFault
        /\ ~ENABLED ProcNext)
       => /\ a.returned /\ b.returned
          /\ {ret[pq[1]].err, ret[pq[2]].err} = {Nil, "AlreadyExists"}

\* the step is one of goroutine p (and not the process dying)
StepOf(p) == pc'[p] # pc[p] /\ phase' # "crashed"

\* C5: a create (also the one inside an upload) that finds its key present
\* fails with AlreadyExists and changes nothing: the in-memory collection, every
\* stored record and the persisted file are as before the call.
C5_DuplicateCreateChangesNothing ==
  [][\A p \in Workers :
       (/\ pc[p] = "cr_body" /\ StepOf(p)
        /\ Has(releases, loc[p].md.SoftwareName, loc[p].md.Version))
       => /\ releases' = releases /\ heap' = heap /\ dbfile' = dbfile
          /\ loc[p].op = "create" =>
               ret'[p].op = "create" /\ ret'[p].err = "AlreadyExists"
          /\ loc[p].op = "upload" =>
               pc'[p] = "up_rollback" /\ loc'[p].err = "AlreadyExists"]_vars

\* C5's case: a create for a key the store held has come back
C5_Witness ==
  \E p \in Workers :
    ret[p].op = "create" /\ ret[p].had /\ ret[p].err = "AlreadyExists"

\* C6: a create for a key the store does not hold returns, and once it has
\* returned success a get with the same key finds a record equal to the one
\* created.
C6_CreateThenGet ==
  \A p \in Workers :
    (CallOf(p).op = "create" /\ ~CallOf(p).had) =>
      /\ ~ENABLED ProcNext => CallOf(p).returned
      /\ (CallOf(p).returned /\ ret[p].err = Nil) =>
           /\ Has(releases, ret[p].name, ret[p].version)
           /\ heap[releases[ret[p].name][ret[p].version]] = ret[p].md

\* C7: get, update and delete for a key the store does not hold return a
\* NotFound error, and update and delete leave the in-memory collection, the
\* stored records and the persisted file unchanged.
C7_AbsentKeyNotFound ==
  [][\A p \in Workers :
       (/\ pc[p] \in {"get_body", "upd_body", "del_body"} /\ StepOf(p)
        /\ loc[p].op \in {"get", "update", "delete"}
        /\ ~Has(releases, loc[p].name, loc[p].version))
       => /\ ret'[p].op = loc[p].op
          /\ ret'[p].err \in NotFound
          /\ ret'[p].val = <<>>
          /\ releases' = releases /\ heap' = heap /\ dbfile' = dbfile]_vars

\* C7's case: an update and a delete for absent keys have come back
C7_Witness ==
  \E pq \in Pairs :
    /\ ret[pq[1]].op = "update" /\ ret[pq[1]].err \in NotFound
    /\ ret[pq[2]].op = "delete" /\ ret[pq[2]].err \in NotFound

\* the records of the persisted file, when it decodes
FileRecs == {dbfile.recs[i] : i \in 1..Len(dbfile.recs)}

\* C8: the in-memory collection files every record under the key made of the
\* record's own softwareName and version and holds no two records with one key;
\* and once the process serves, the persisted file holds no two records with
\* one key.
C8_OneRecordPerKey ==
  /\ \A n \in DOMAIN releases : \A v \in DOMAIN releases[n] :
       KeyOf(heap[releases[n][v]]) = <<n, v>>
  /\ \A r1, r2 \in Refs(releases) :
       KeyOf(heap[r1]) = KeyOf(heap[r2]) => r1 = r2
  /\ phase = "serving" =>
       \A i, j \in 1..Len(dbfile.recs) :
         KeyOf(dbfile.recs[i]) = KeyOf(dbfile.recs[j]) => i = j

\* C8's case: the process serves a loaded record and a create has put a second
\* one into the collection
C8_Witness ==
  /\ phase = "serving"
  /\ Len(dbfile.recs) >= 1
  /\ Cardinality(Refs(releases)) >= 2
  /\ \E p \in Workers : loc[p].inner = "create" /\ pc[p] = "save_rlock"

\* C9: a create, update or delete returns, and when it has returned success
\* (no other call made) the persisted file holds exactly the records of the
\* in-memory collection.
C9_DurableOnReturn ==
  \A pq \in Pairs :
    CallOf(pq[1]).op \in {"create", "update", "delete"} =>
      /\ ~ENABLED ProcNext => CallOf(pq[1]).returned
      /\ (CallOf(pq[1]).returned /\ ret[pq[1]].err = Nil /\ calls[pq[2]] = 0) =>
           dbfile.kind = "json" /\ FileRecs = Stored

\* C10: when the process has died, the persisted file still loads and the
\* loaded collection holds every key that a call which returned success had
\* left persisted.
C10_CrashKeepsAckedWrites ==
  (phase = "crashed" /\ acked # {}) =>
    LET l == loadReleasesMetadata(dbfile)
    IN /\ l.err = Nil
       /\ \A k \in acked : Has(l.releases, k[1], k[2])

\* goroutine q is reading or writing the store: it holds db.mu in either mode,
\* or it has cut the persisted file and not yet encoded into it
Accessing(q) == q \in mu.r \/ mu.w = q \/ pc[q] = "save_encode"

\* C11: a write excludes every other read and write: a step of a goroutine that
\* changes the in-memory collection, a stored record's fields or the persisted
\* file is taken only while no other goroutine is reading or writing the store.
C11_WriteExcludesAll ==
  [][\A p \in Procs :
       (StepOf(p) /\ (releases' # releases \/ heap' # heap \/ dbfile' # dbfile))
       => \A q \in Procs \ {p} : ~Accessing(q)]_vars

ReadOps == {"get", "listfor", "listall"}

\* C12: every record a reader was handed by get, listForSoftware or listAll
\* reads, then and whenever it is looked at later, as it stood when some write
\* had completed.
C12_ReadersSeeCompletedWrites ==
  \A p \in Workers :
    (ret[p].op \in ReadOps /\ ret[p].err = Nil) =>
      \A i \in 1..Len(ret[p].val) : heap[ret[p].val[i]] \in committed

\* record md agrees with the repository tree: no file and unavailable, or a
\* file of the recorded size and available
AlignedRec(md) ==
  IF files[PathOf(md)] = NoFile
    THEN md.ReleaseState = "unavailable"
    ELSE md.ReleaseState = "available" /\ md.FileSize = files[PathOf(md)]

\* goroutine p is the only request goroutine that has made a call
Alone(p) == \A q \in Workers \ {p} : calls[q] = 0

\* C13: a reconcile call made while nothing else runs returns, and when it has
\* returned success with the tree not changed from outside, every record in
\* memory and in the persisted file agrees with the tree: unavailable when its
\* file is absent, available with the file's real size when it is present.
C13_ReconcileAligns ==
  \A p \in Workers :
    (CallOf(p).op = "reconcile" /\ Alone(p)) =>
      /\ ~ENABLED ProcStep(p) => CallOf(p).returned
      /\ (CallOf(p).returned /\ ret[p].err = Nil /\ touches = 0) =>
           /\ dbfile.kind = "json"
           /\ \A md \in Stored \cup FileRecs : AlignedRec(md)

\* every call made since the process began to serve is a reconcile
OnlyReconciles == \A q \in Workers : CallOf(q).op \in {"none", "reconcile"}

C15_StatErrorAborts ==
  [][\A p \in Procs :
       (StepOf(p) /\ pc[p] \in {"rc_stat", "rc_stat2"})
       => \/ loc'[p].op = "reconcile" /\ loc'[p].err \in {Nil, "NotExist"}
          \/ /\ loc'[p].op = "none"
             /\ ret'[p].op = "reconcile"
             /\ ret'[p].err # Nil
             /\ <<ret'[p].name, ret'[p].version>> = KeyOf(heap[loc[p].list[loc[p].i]])
             /\ heap' = heap /\ releases' = releases /\ dbfile' = dbfile]_vars

\* C15's case: a reconcile has come back from an os.Stat that failed
C15_Witness ==
  \E p \in Procs :
    ret[p].op = "reconcile" /\ ret[p].fault /\ ret[p].name # <<>>

\* C16: a reconcile that returns an error leaves every record as it was before
\* the call: when the reconcile of the first start has returned an error and
\* the persisted file is still the one the records were loaded from, the
\* records in memory are the loaded ones.
C16_AllOrNothing ==
  (/\ phase = "failed" /\ crashes = 0
   /\ ret[Main].op = "reconcile" /\ ret[Main].err # Nil
   /\ dbfile.kind # "truncated")
  => heap = loadReleasesMetadata(dbfile).heap

\* C17: a request is served only after the reconciliation of the start has
\* returned success, main runs that reconciliation once, and when it returns an
\* error the process exits and no request is ever served.
C17_ReconcileBeforeServing ==
  /\ \A p \in Workers :
       (loc[p].op # "none" \/ ret[p].op # "none") =>
         ret[Main].op = "reconcile" /\ ret[Main].err = Nil
  /\ phase = "serving" =>
       /\ ret[Main].op = "reconcile" /\ ret[Main].err = Nil
       /\ pc[Main] = "serve" /\ loc[Main].op = "none"
  /\ ret[Main].err # Nil =>
       /\ phase = "failed" /\ pc[Main] = "exit"
       /\ \A p \in Workers : loc[p].op = "none" /\ ret[p].op = "none"
  /\ phase = "failed" => ~ENABLED ProcNext

\* C17's case: a request is being served
C17_Witness ==
  \E p \in Workers : phase = "serving" /\ loc[p].op # "none"

\* C18: an upload for a key the store does not hold, made while nothing else
\* runs, returns; and when it has returned success the archive is at the path
\* derived for the key and the store holds a record for the key that is
\* available and has the size of the placed file.
C18_UploadCommits ==
  \A p \in Workers :
    (CallOf(p).op = "upload" /\ ~CallOf(p).had /\ Alone(p)) =>
      /\ ~ENABLED ProcStep(p) => CallOf(p).returned
      /\ (CallOf(p).returned /\ ret[p].err = Nil) =>
           /\ files[PathOf(ret[p].md)] # NoFile
           /\ Has(releases, ret[p].name, ret[p].version)
           /\ LET md == heap[releases[ret[p].name][ret[p].version]]
              IN /\ md.ReleaseState = "available"
                 /\ md.FileSize = files[PathOf(md)]

\* C19: while an upload places its file (directory and copy, then the stat) it
\* changes nothing of the metadata store, in memory or on disk; a step that ends
\* the upload there returns an error; and the commit of the record is entered
\* only from the stat of a file that is in place, with that file's size.
C19_UploadFailsClosed ==
  [][\A p \in Workers :
       (StepOf(p) /\ pc[p] \in {"up_open", "up_copy", "up_stat"})
       => /\ releases' = releases /\ heap' = heap /\ dbfile' = dbfile
          /\ loc'[p].op = "none" => ret'[p].op = "upload" /\ ret'[p].err # Nil
          /\ loc'[p].inner = "create" =>
               /\ pc[p] = "up_stat"
               /\ files[PathOf(loc[p].md)] # NoFile
               /\ loc'[p].md.FileSize = files[PathOf(loc[p].md)]]_vars

\* C19's case: an upload has come back from a failed copy or stat
C19_Witness ==
  \E p \in Workers :
    ret[p].op = "upload" /\ ret[p].err = "IOFailure" /\ ret[p].fault

\* the errors the returned error r.err stands for: UploadRelease wraps the
\* error of CreateReleaseMetadata and nothing else
ErrorsIn(r) == IF r.err = Nil THEN {} ELSE {r.err}

\* C20: an upload whose commit failed with AlreadyExists and whose removal of
\* the placed file failed too (the one system call that can fail on that path)
\* reports both: the primary error and a CompensationFailure.
C20_CompensationReported ==
  \A p \in Workers :
    (ret[p].op = "upload" /\ ret[p].err = "AlreadyExists" /\ ret[p].fault) =>
      {"AlreadyExists", "CompensationFailure"} \subseteq ErrorsIn(ret[p])

\* ------------------------------------------------------------------ paths

\* the key of the first and of the second caller
KeyA == <<calc.nameA, calc.versionA>>
KeyB == <<calc.nameB, calc.versionB>>

Resolved == calc.fn = "paths" /\ calc.done

\* C21: two distinct (softwareName, version) keys that the store accepts and
\* whose paths can be derived never derive the same file path.
C21_DistinctKeysDistinctPaths ==
  (Resolved /\ calc.pathA # Panic /\ calc.pathB # Panic /\ KeyA # KeyB)
    => calc.pathA # calc.pathB

\* the name lowercased, spaces replaced by underscores
Sanitized(name) ==
  [i \in 1..Len(name) |->
     IF name[i] = 32 THEN 95
     ELSE IF name[i] \in 65..90 THEN name[i] + 32 ELSE name[i]]

\* what stands before "_<sanitizedName>" in the directory's name
DirPrefix(dir, name) == SubSeq(dir[2], 1, Len(dir[2]) - Len(name) - 1)

Layout(prefix, name, x, y, z) ==
  <<RepositoryPath,
    prefix \o <<95>> \o Sanitized(name),
    prefix \o <<95>> \o Sanitized(name) \o <<95>>
      \o x \o <<46>> \o y \o <<46>> \o z \o <<46, 116, 103, 122>>>>

ComponentsA == Split(calc.versionA, 46)

\* C22 (as claimed): for a version X.Y.Z the path is
\* <repoRoot>/<dirPrefix>_<sanitizedName>/<dirPrefix>_<sanitizedName>_<X>.<Y>.<Z>.tgz
\* with X, Y, Z the three components as given.
C22_PathAsGiven ==
  (Resolved /\ Len(ComponentsA) = 3) =>
    calc.pathA = Layout(DirPrefix(calc.dirA, calc.nameA), calc.nameA,
                        ComponentsA[1], ComponentsA[2], ComponentsA[3])

\* a component left-padded to two characters with the build's pad character
Padded2(s) ==
  IF Len(s) = 0 THEN <<pad, pad>> ELSE IF Len(s) = 1 THEN <<pad>> \o s ELSE s

\* C22 (amended): for a version X.Y.Z the path is
\* <repoRoot>/<dirPrefix>_<sanitizedName>/<dirPrefix>_<sanitizedName>_<X'>.<Y'>.<Z'>.tgz
\* where dirPrefix is the identifier in decimal and X', Y', Z' are the three
\* components, each left-padded to two characters with the pad character of
\* the build ('0' or ' ').
C22_PathPadded ==
  (Resolved /\ Len(ComponentsA) = 3) =>
    LET prefix == DirPrefix(calc.dirA, calc.nameA)
    IN /\ \A i \in 1..Len(prefix) : IsDigit(prefix[i])
       /\ DecValue(prefix, 1, 0) = calc.idA
       /\ calc.pathA = Layout(prefix, calc.nameA, Padded2(ComponentsA[1]),
                              Padded2(ComponentsA[2]), Padded2(ComponentsA[3]))

\* the path of "1.0.0" has been derived: its components are shorter than two
C22_Witness == Resolved /\ calc.versionA = V100 /\ calc.pathA # Panic

\* C23: the identifier of every name is non-negative and its decimal rendering
\* in the directory name has exactly six digits.
C23_SixDigitIdentifier ==
  Resolved =>
    /\ calc.idA >= 0
    /\ Len(DirPrefix(calc.dirA, calc.nameA)) = 6

\* ------------------------------------------------------------------ version order

\* a non-negative base-10 integer, written with digits only
Numeral(s) == Len(s) > 0 /\ \A i \in 1..Len(s) : IsDigit(s[i])

\* exactly three dot-separated components, each a numeral
WellFormed(s) ==
  LET parts == Split(s, 46)
  IN Len(parts) = 3 /\ \A i \in 1..3 : Numeral(parts[i])

Parsed == calc.fn = "parseVersion" /\ calc.done

\* C25: parse succeeds only on a string of exactly three dot-separated
\* components that are each a non-negative base-10 integer; every other string
\* (fewer or more components, an empty, non-numeric or signed component) gets
\* ParseError.
C25_ParseAcceptsOnlyXYZ ==
  Parsed => (calc.err = Nil => WellFormed(calc.versionStr))

Tuple(v) == <<v.Major, v.Minor, v.Patch>>

\* x is greater at the first place where the tuples differ
LexGreater(x, y) ==
  \E i \in 1..3 : x[i] > y[i] /\ \A j \in 1..(i - 1) : x[j] = y[j]

Compared == calc.fn = "GreaterThan" /\ calc.done

\* C26: a.GreaterThan(b) holds exactly when a's (major, minor, patch) is
\* lexicographically greater than b's; versions with equal tuples are greater
\* in neither direction whatever their original strings; the order is
\* irreflexive, asymmetric and transitive.
C26_ComparisonIsLexicographic ==
  Compared =>
    /\ calc.ab = LexGreater(Tuple(calc.a), Tuple(calc.b))
    /\ calc.ba = LexGreater(Tuple(calc.b), Tuple(calc.a))
    /\ calc.bc = LexGreater(Tuple(calc.b), Tuple(calc.c))
    /\ calc.ac = LexGreater(Tuple(calc.a), Tuple(calc.c))
    /\ Tuple(calc.a) = Tuple(calc.b) => ~calc.ab /\ ~calc.ba
    /\ ~calc.aa
    /\ calc.ab => ~calc.ba
    /\ (calc.ab /\ calc.bc) => calc.ac

\* 1.10.0 > 1.9.9 > 01.0.0 compared: the minor decides, the patch would not
C26_Witness ==
  /\ Compared
  /\ calc.a.Original = V1100 /\ calc.b.Original = V199 /\ calc.c.Original = V0100
  /\ calc.ab /\ calc.bc /\ calc.ac

Queried == calc.fn = "latest" /\ calc.done

\* C27: for a software with at least one release, GetLatestReleaseForSoftware
\* returns the record at the head of the list sorted by version descending,
\* and no release of the software has a greater version.
C27_LatestIsHeadOfSortedList ==
  Queried =>
    /\ calc.latest = calc.sorted[1]
    /\ \A v \in calc.versions : ~VersionDesc(v, calc.latest)

\* ------------------------------------------------------------------ ownership

\* where a goroutine is inside the body of a create, update or delete of the
\* store, holding the write lock
StoreBodies == {"cr_body", "upd_body", "del_body"}

\* C28: every change of a stored record, as get and listAll show it, is made
\* inside a create, update or delete call of the store; reconciliation, upload
\* and the callers never change a stored record themselves.
C28_OnlyStoreMutates ==
  [][\A p \in Procs :
       (StepOf(p) /\ phase # "crashed" /\ Stored' # Stored)
       => pc[p] \in StoreBodies]_vars

\* the calls that only read the store: get, listForSoftware, listAll, and the
\* latest-release, sorted-list and path-lookup queries built on them
QueryOps == {"get", "listfor", "listall"}

\* the record r keeps its key, state and fileSize over the step
KeepsStateAndSize(r) ==
  \E r2 \in Refs(releases') :
    /\ KeyOf(heap'[r2]) = KeyOf(heap[r])
    /\ heap'[r2].ReleaseState = heap[r].ReleaseState
    /\ heap'[r2].FileSize = heap[r].FileSize

\* C29: no step of a get, listForSoftware or listAll call (the calls the
\* latest-release, sorted-list and path-lookup queries make) and no step of an
\* upload changes the state or fileSize of an existing record, but for the
\* record of the upload's own key.
C29_QueriesAndOtherUploadsKeepRecords ==
  [][\A p \in Workers :
       (StepOf(p) /\ phase # "crashed" /\ loc[p].op \in QueryOps \cup {"upload"})
       => \A r \in Refs(releases) :
            (loc[p].op = "upload" => KeyOf(heap[r]) # <<loc[p].name, loc[p].version>>)
            => KeepsStateAndSize(r)]_vars

\* a get of a stored record has returned it, and an upload of another key has
\* put its record beside an existing one
C29_Witness ==
  \E p, q \in Workers :
    /\ ret[p].op = "get" /\ ret[p].err = Nil
    /\ loc[q].op = "upload" /\ pc[q] = "save_rlock"
    /\ \E r \in Refs(releases) : KeyOf(heap[r]) # <<loc[q].name, loc[q].version>>

\* ------------------------------------------------------------------ failed persistence

\* C30: a create or an upload for a key the store does not hold, made while
\* nothing else runs, comes to an end by returning, and when it has returned an
\* error (the persisted file could not be written) the in-memory collection
\* holds no record for the key, so that a get answers NotFound and a retry is
\* not rejected as AlreadyExists.
C30_FailedCreateLeavesMemory ==
  \A p \in Workers :
    (CallOf(p).op \in {"create", "upload"} /\ ~CallOf(p).had /\ Alone(p)) =>
      /\ ~ENABLED ProcStep(p) => CallOf(p).returned
      /\ (CallOf(p).returned /\ ret[p].err # Nil) =>
           ~Has(releases, ret[p].name, ret[p].version)

\* ------------------------------------------------------------------ file of a release

FilePathAsked == calc.fn = "GetReleaseFilePath" /\ calc.done

\* the store holds a record for the key asked, and it is available
AvailableRecord ==
  \E r \in RecordsFor(calc.name, calc.version) : heap[r].ReleaseState = "available"

\* the file at the path derived from the key can be opened
Openable ==
  /\ files[getReleaseFilePath(RepositoryPath, calc.name, calc.version)] # NoFile
  /\ ~calc.openFails

\* C32: GetReleaseFilePath returns a path, the one derived from the key, only
\* when the store holds an available record for the key and the file at that
\* path can be opened; for an unknown key, an unavailable record or a file
\* that cannot be opened it returns an error and no path.
C32_PathOnlyForAvailableOpenable ==
  FilePathAsked =>
    /\ calc.err = Nil <=> (AvailableRecord /\ Openable)
    /\ calc.err = Nil =>
         calc.path = getReleaseFilePath(RepositoryPath, calc.name, calc.version)
    /\ calc.err # Nil => calc.path = <<>>

\* a path was returned
C32_Witness == FilePathAsked /\ calc.err = Nil /\ calc.path # <<>>

\* ------------------------------------------------------------------ listings

PackagesListed == calc.fn = "packages" /\ calc.done

\* the versions stored for the software n
VersionsOf(n) == {r.Version : r \in {x \in calc.releases : x.SoftwareName = n}}

\* one entry per name of the releases, by name ascending, each with a version
\* that no release of the name exceeds
PackageListOf(l) ==
  /\ {l[i].Name : i \in 1..Len(l)} = {r.SoftwareName : r \in calc.releases}
  /\ \A i, j \in 1..Len(l) : i < j => StrLess(l[i].Name, l[j].Name)
  /\ \A i \in 1..Len(l) :
       /\ l[i].LatestVersion \in VersionsOf(l[i].Name)
       /\ \A v \in VersionsOf(l[i].Name) : ~VersionDesc(v, l[i].LatestVersion)

\* C33: ListSoftwarePackages returns one entry per software name in the
\* store, by name ascending, each with the maximum version of that software;
\* the result does not depend on the order in which the records are iterated.
C33_PackagesIndependentOfIteration ==
  PackagesListed =>
    /\ PackageListOf(calc.first)
    /\ PackageListOf(calc.second)
    /\ calc.first = calc.second

Listed == calc.fn = "list" /\ calc.done

\* no release of the list is followed by one of a smaller version
Ascending(q) ==
  \A i, j \in 1..Len(q) : i < j => ~VersionDesc(q[i].Version, q[j].Version)

\* no release of the list is followed by one of a greater version
Descending(q) ==
  \A i, j \in 1..Len(q) : i < j => ~VersionDesc(q[j].Version, q[i].Version)

\* C34: ListReleasesForSoftware returns every release of the software exactly
\* once; by version ascending for sortField "version" unless sortOrder is
\* "desc", by version descending for "version" with "desc", and by version
\* descending for every sortField other than "version" and "date", whatever
\* the sortOrder.
C34_ListOrder ==
  Listed =>
    /\ Len(calc.sorted) = Cardinality(calc.releases)
    /\ {calc.sorted[i] : i \in 1..Len(calc.sorted)} = calc.releases
    /\ (calc.sortField = "version" /\ calc.sortOrder # "desc") => Ascending(calc.sorted)
    /\ (calc.sortField = "version" /\ calc.sortOrder = "desc") => Descending(calc.sorted)
    /\ calc.sortField \notin {"version", "date"} => Descending(calc.sorted)

\* an unknown sortField with sortOrder "asc" gave 1.0.1 before 1.0.0
C34_Witness ==
  /\ Listed /\ calc.sortField = "name" /\ calc.sortOrder = "asc"
  /\ Len(calc.sorted) = 2
  /\ calc.sorted[1].Version = V101 /\ calc.sorted[2].Version = V100

\* ------------------------------------------------------------------ short versions and empty names

\* C38: for a version string with fewer than three components separated by
\* dots the path derivation hands back an error value; it does not panic.
C38_ShortVersionIsAnError ==
  (Resolved /\ Len(Split(calc.versionA, 46)) < 3) => calc.pathA # Panic

\* no name of the index maps to an empty set of versions
NoEmptyName == \A n \in DOMAIN releases : DOMAIN releases[n] # {}

\* listForSoftware of p answers: with the records of the name, at least one,
\* when the store has a record of that name, and with NotFound otherwise
ListAnswer(p) ==
  (pc[p] = "lf_body" /\ StepOf(p)) =>
    /\ ret'[p].err = Nil <=> (\E md \in Stored : md.SoftwareName = loc[p].name)
    /\ ret'[p].err = Nil =>
         /\ ret'[p].val # <<>>
         /\ {heap[ret'[p].val[i]] : i \in 1..Len(ret'[p].val)}
              = {md \in Stored : md.SoftwareName = loc[p].name}
    /\ ret'[p].err # Nil => ret'[p].err = "SoftwareNotFound" /\ ret'[p].val = <<>>

\* C39: whatever creates, updates and deletes were called, no software name
\* of the in-memory index maps to an empty set of versions; listForSoftware
\* succeeds for a name exactly when a record of that name is stored, never
\* with an empty list, and answers NotFound when the name has no release
\* (left).
C39_NoEmptyNameInIndex ==
  /\ []NoEmptyName
  /\ [][\A p \in Workers : ListAnswer(p)]_vars

\* a delete has taken the last release of its software out of the index
C39_Witness ==
  \E p \in Workers :
    /\ loc[p].op = "delete" /\ pc[p] = "save_rlock"
    /\ loc[p].name \notin DOMAIN releases

\* ------------------------------------------------------------------ users and authentication

RejectionMessages == {"user already exists", "user not found"}

\* the places where a request waits for the user store's lock
LockWaits == {"ba_lookup", "u_lock", "lu_rlock", "su_rlock"}

\* C31: a user-store operation that was rejected (CreateUser for an existing
\* username; UpdateUserPassword, DeleteUser, EnableDisableUser for an unknown
\* one) has released the store's lock when it returns, so that a request
\* waiting for the lock, the lookup of Basic authentication included, can go
\* on.
C31_RejectedOperationReleasesLock ==
  \A c \in Clients :
    (rpc[c] = "idle" /\ resp[c].status = 400 /\ resp[c].message \in RejectionMessages)
      => /\ umu.w # c
         /\ \A d \in Clients : rpc[d] \in LockWaits => ENABLED ClientStep(d)

\* C35: a request is inside an admin handler only if the user Basic
\* authentication found for it is enabled and has "administrator" in the role
\* list the store holds.
C35_AdminHandlerOnlyForStoredAdministrators ==
  \A c \in Clients :
    (rloc[c].entered /\ rloc[c].route \in AdminRoutes)
      => /\ "administrator" \in rloc[c].seen.Roles
         /\ rloc[c].seen.Username = rloc[c].user

\* C36: the status endpoint called with enabled = e for a stored user leaves
\* that user's Enabled flag equal to e (false: Basic authentication answers
\* "Account disabled"; true: the flag is true).
C36_StatusSetsFlagAsAsked ==
  [][\A c \in Clients :
       (rpc[c] = "u_lock" /\ rloc[c].route = "status" /\ rpc'[c] = "su_rlock")
         => uheap'[users[rloc[c].target]].Enabled = rloc[c].enabled]_vars

\* C37: the release endpoints accept an API key only while the user it was
\* issued to is in the store and enabled.
C37_KeyAcceptedOnlyForEnabledUser ==
  [][\A c \in Clients :
       (rpc[c] = "apikey" /\ resp'[c].entered)
         => /\ apiKeys[rloc[c].key] \in DOMAIN users
            /\ uheap[users[apiKeys[rloc[c].key]]].Enabled]_vars

====
